---------------------------- MODULE Spec2Model ----------------------------
(***************************************************************************)
(* Model of the erasure-coding engine of erasure-isa-l (src/src/erasure.rs) *)
(* on top of the GF(2^8) primitives bound in src/src/bind.rs.              *)
(*                                                                         *)
(* Vectors and matrices are 1-based TLA+ sequences; the Rust code is       *)
(* 0-based, so element i of a Rust slice is element i+1 here.  Block and   *)
(* erasure indices keep their Rust (0-based) values.                       *)
(***************************************************************************)
EXTENDS Integers, Sequences, FiniteSets, TLC

(***************************************************************************)
(* GF(2^8) arithmetic (bind.rs, mod gf).  The field is the one of the      *)
(* bound library: bytes as polynomials over GF(2) modulo                   *)
(* x^8 + x^4 + x^3 + x^2 + 1 (0x11d), with generator {2}.                  *)
(***************************************************************************)

\* Bitwise exclusive or of two bytes: the `^` of the Rust code.
RECURSIVE Xor(_, _)
Xor(a, b) ==
    IF a = 0 THEN b
    ELSE IF b = 0 THEN a
    ELSE ((a + b) % 2) + 2 * Xor(a \div 2, b \div 2)

\* Exponential table of the field: gff_base[i + 1] = {2}^i for i in 0..254.
gff_base ==
  <<
      1,   2,   4,   8,  16,  32,  64, 128,  29,  58, 116, 232, 205, 135,  19,  38,
     76, 152,  45,  90, 180, 117, 234, 201, 143,   3,   6,  12,  24,  48,  96, 192,
    157,  39,  78, 156,  37,  74, 148,  53, 106, 212, 181, 119, 238, 193, 159,  35,
     70, 140,   5,  10,  20,  40,  80, 160,  93, 186, 105, 210, 185, 111, 222, 161,
     95, 190,  97, 194, 153,  47,  94, 188, 101, 202, 137,  15,  30,  60, 120, 240,
    253, 231, 211, 187, 107, 214, 177, 127, 254, 225, 223, 163,  91, 182, 113, 226,
    217, 175,  67, 134,  17,  34,  68, 136,  13,  26,  52, 104, 208, 189, 103, 206,
    129,  31,  62, 124, 248, 237, 199, 147,  59, 118, 236, 197, 151,  51, 102, 204,
    133,  23,  46,  92, 184, 109, 218, 169,  79, 158,  33,  66, 132,  21,  42,  84,
    168,  77, 154,  41,  82, 164,  85, 170,  73, 146,  57, 114, 228, 213, 183, 115,
    230, 209, 191,  99, 198, 145,  63, 126, 252, 229, 215, 179, 123, 246, 241, 255,
    227, 219, 171,  75, 150,  49,  98, 196, 149,  55, 110, 220, 165,  87, 174,  65,
    130,  25,  50, 100, 200, 141,   7,  14,  28,  56, 112, 224, 221, 167,  83, 166,
     81, 162,  89, 178, 121, 242, 249, 239, 195, 155,  43,  86, 172,  69, 138,   9,
     18,  36,  72, 144,  61, 122, 244, 245, 247, 243, 251, 235, 203, 139,  11,  22,
     44,  88, 176, 125, 250, 233, 207, 131,  27,  54, 108, 216, 173,  71, 142
  >>

gflog_base ==
  <<
      0,   1,  25,   2,  50,  26, 198,   3, 223,  51, 238,  27, 104, 199,  75,   4,
    100, 224,  14,  52, 141, 239, 129,  28, 193, 105, 248, 200,   8,  76, 113,   5,
    138, 101,  47, 225,  36,  15,  33,  53, 147, 142, 218, 240,  18, 130,  69,  29,
    181, 194, 125, 106,  39, 249, 185, 201, 154,   9, 120,  77, 228, 114, 166,   6,
    191, 139,  98, 102, 221,  48, 253, 226, 152,  37, 179,  16, 145,  34, 136,  54,
    208, 148, 206, 143, 150, 219, 189, 241, 210,  19,  92, 131,  56,  70,  64,  30,
     66, 182, 163, 195,  72, 126, 110, 107,  58,  40,  84, 250, 133, 186,  61, 202,
     94, 155, 159,  10,  21, 121,  43,  78, 212, 229, 172, 115, 243, 167,  87,   7,
    112, 192, 247, 140, 128,  99,  13, 103,  74, 222, 237,  49, 197, 254,  24, 227,
    165, 153, 119,  38, 184, 180, 124,  17,  68, 146, 217,  35,  32, 137,  46,  55,
     63, 209,  91, 149, 188, 207, 205, 144, 135, 151, 178, 220, 252, 190,  97, 242,
     86, 211, 171,  20,  42,  93, 158, 132,  60,  57,  83,  71, 109,  65, 162,  31,
     45,  67, 216, 183, 123, 164, 118, 196,  23,  73, 236, 127,  12, 111, 246, 108,
    161,  59,  82,  41, 157,  85, 170, 251,  96, 134, 177, 187, 204,  62,  90, 203,
     89,  95, 176, 156, 169, 160,  81,  11, 245,  22, 235, 122, 117,  44, 215,  79,
    174, 213, 233, 230, 231, 173, 232, 116, 214, 244, 234, 168,  80,  88, 175
  >>

\* gf::mul: product of a and b in GF(2^8).
mul(a, b) ==
    IF a = 0 \/ b = 0
    THEN 0
    ELSE gff_base[((gflog_base[a] + gflog_base[b]) % 255) + 1]

\* gf::inv: the b with a x b = {1}; 0 for a = 0.
inv(a) == IF a = 0 THEN 0 ELSE gff_base[((255 - gflog_base[a]) % 255) + 1]

\* a sequence given as a function, made an explicit tuple
Tup(f) == f \o <<>>

\* row and column (0-based) of the 1-based position idx of a row-major
\* matrix with cols columns
RowOf(idx, cols) == (idx - 1) \div cols
ColOf(idx, cols) == (idx - 1) % cols

\* g^j by repeated multiplication, as the generator loops do
RECURSIVE GfPow(_, _)
GfPow(g, j) == IF j = 0 THEN 1 ELSE mul(GfPow(g, j - 1), g)

\* gf::gen_rs_matrix(a, m = rows, k): identity on top, then row i >= k holds
\* the powers gen^0 .. gen^(k-1) of gen = {2}^(i-k).
gen_rs_matrix(rows, k) ==
    Tup([idx \in 1..(rows * k) |->
        LET i == RowOf(idx, k)
            j == ColOf(idx, k)
        IN  IF i < k
            THEN (IF i = j THEN 1 ELSE 0)
            ELSE GfPow(GfPow(2, i - k), j)])

\* gen_cauchy1_matrix with the parity rows numbered from 0, so that the row
\* and column indices are no longer disjoint
gen_cauchy1_matrix_from0(rows, k) ==
    Tup([idx \in 1..(rows * k) |->
        LET i == RowOf(idx, k)
            j == ColOf(idx, k)
        IN  IF i < k
            THEN (IF i = j THEN 1 ELSE 0)
            ELSE inv(Xor(i - k, j) % 256)])

\* gf::gen_cauchy1_matrix(a, m = rows, k): identity on top, then 1/(i ^ j),
\* the index sum taken as a byte.
gen_cauchy1_matrix(rows, k) ==
    Tup([idx \in 1..(rows * k) |->
        LET i == RowOf(idx, k)
            j == ColOf(idx, k)
        IN  IF i < k
            THEN (IF i = j THEN 1 ELSE 0)
            ELSE inv(Xor(i, j) % 256)])

\* The identity matrix of size n, row-major.
IdentityMatrix(n) ==
    Tup([idx \in 1..(n * n) |-> IF RowOf(idx, n) = ColOf(idx, n) THEN 1 ELSE 0])

\* Rows i and j of the n x n matrix mat exchanged.
SwapRows(mat, n, i, j) ==
    Tup([idx \in 1..(n * n) |->
        LET r == RowOf(idx, n)
            c == ColOf(idx, n)
        IN  IF r = i THEN mat[j * n + c + 1]
            ELSE IF r = j THEN mat[i * n + c + 1]
            ELSE mat[idx]])

\* Row i of mat scaled by t.
ScaleRow(mat, n, i, t) ==
    Tup([idx \in 1..(n * n) |->
        IF RowOf(idx, n) = i THEN mul(mat[idx], t) ELSE mat[idx]])

\* Every row j # i of mat has temp_j * (row i of mat) added, where temp_j is
\* the entry of row j of pivotMat in column i.
Eliminate(mat, pivotMat, n, i) ==
    Tup([idx \in 1..(n * n) |->
        LET r == RowOf(idx, n)
            c == ColOf(idx, n)
        IN  IF r = i
            THEN mat[idx]
            ELSE Xor(mat[idx], mul(pivotMat[r * n + i + 1], mat[i * n + c + 1]))])

\* Gauss-Jordan elimination from pivot i on; in_mat is destroyed, out_mat
\* collects the inverse.
RECURSIVE InvertFrom(_, _, _, _)
InvertFrom(in_mat, out_mat, n, i) ==
    IF i = n
    THEN [ok |-> TRUE, output |-> out_mat, input |-> in_mat]
    ELSE
      LET below == {j \in (i + 1)..(n - 1) : in_mat[j * n + i + 1] # 0}
          swap  == in_mat[i * n + i + 1] = 0
      IN  IF swap /\ below = {}
          THEN [ok |-> FALSE, output |-> out_mat, input |-> in_mat]
          ELSE
            LET j    == CHOOSE r \in below : \A s \in below : r <= s
                in1  == IF swap THEN SwapRows(in_mat, n, i, j) ELSE in_mat
                out1 == IF swap THEN SwapRows(out_mat, n, i, j) ELSE out_mat
                temp == inv(in1[i * n + i + 1])
                in2  == ScaleRow(in1, n, i, temp)
                out2 == ScaleRow(out1, n, i, temp)
                in3  == Eliminate(in2, in2, n, i)
                out3 == Eliminate(out2, in2, n, i)
            IN  InvertFrom(in3, out3, n, i + 1)

\* gf::invert_matrix(input, output, n): ok is the returned bool, output the
\* inverse when ok, input what is left of the destroyed input.
invert_matrix(input, n) == InvertFrom(input, IdentityMatrix(n), n, 0)

(***************************************************************************)
(* Erasure-code primitives (bind.rs, mod ec).                              *)
(***************************************************************************)

\* ec::init_tables(k, rows, a, gf_tbls): 32 bytes for each of the k * rows
\* coefficients of a: c * {0..15}, then c * {0, 16, .., 240}.
init_tables(k, rows, a) ==
    Tup([idx \in 1..(32 * k * rows) |->
        LET c == a[((idx - 1) \div 32) + 1]
            t == (idx - 1) % 32
        IN  IF t < 16 THEN mul(c, t) ELSE mul(c, (t - 16) * 16)])

\* The byte of gf_tbls at 0-based offset off; a read past the end of the
\* table yields the byte junk.
TableByte(gf_tbls, off, junk) ==
    IF off + 1 <= Len(gf_tbls) THEN gf_tbls[off + 1] ELSE junk

\* Byte i (1-based) of source block j (1-based) of src; a read past the end
\* of the block, or of a block src does not have, yields the byte junk.
SrcByte(src, j, i, junk) ==
    IF j <= Len(src) /\ i <= Len(src[j]) THEN src[j][i] ELSE junk

\* XOR over the sources j < upto of mul(src[j][i], coefficient (l, j))
RECURSIVE DotProd(_, _, _, _, _, _, _)
DotProd(upto, k, l, i, gf_tbls, src, junk) ==
    IF upto = 0
    THEN 0
    ELSE Xor(DotProd(upto - 1, k, l, i, gf_tbls, src, junk),
             mul(SrcByte(src, upto, i, junk),
                 TableByte(gf_tbls, (upto - 1) * 32 + l * k * 32 + 1, junk)))

\* ec::encode_data(len, k, rows, gf_tbls, data, code): the rows output
\* blocks, each of len bytes, computed from the first k blocks of src.
encode_data(len, k, rows, gf_tbls, src, junk) ==
    [l \in 1..rows |->
        Tup([i \in 1..len |-> DotProd(k, k, l - 1, i, gf_tbls, src, junk)])]

(***************************************************************************)
(* Results (erasure.rs, enum Error).                                       *)
(***************************************************************************)
Ok == [kind |-> "Ok"]
too_many_erasures(erasures, max_erasures) ==
    [kind |-> "TooManyErasures", erased |-> erasures, max |-> max_erasures]
invalid_arguments(msg, args) ==
    [kind |-> "InvalidArguments", msg |-> msg, args |-> args]
internal_error(msg) == [kind |-> "InternalError", msg |-> msg]
\* not a value of Error: the call panics instead of returning
panic(msg) == [kind |-> "Panic", msg |-> msg]

IsErr(r) == r.kind # "Ok"

(***************************************************************************)
(* The engine (erasure.rs, impl ErasureCode).  An engine is the record     *)
(* [k, m, encode_matrix, encode_gf_table] of the struct's fields.          *)
(***************************************************************************)

\* ErasureCode::new
new(source_num, code_num, code_type) ==
    LET n == source_num + code_num
        matrix == IF code_type = "ReedSolomon"
                  THEN gen_rs_matrix(n, source_num)
                  ELSE gen_cauchy1_matrix(n, source_num)
    IN  [k |-> source_num,
         m |-> code_num,
         encode_matrix |-> matrix,
         encode_gf_table |->
            init_tables(source_num, code_num,
                        SubSeq(matrix, source_num * source_num + 1,
                               Len(matrix)))]

source_num(ec) == ec.k
code_num(ec) == ec.m
block_num(ec) == ec.k + ec.m

\* erasures.sort_unstable()
RECURSIVE Insert(_, _)
Insert(e, s) ==
    IF s = <<>> THEN <<e>>
    ELSE IF e <= Head(s) THEN <<e>> \o s
    ELSE <<Head(s)>> \o Insert(e, Tail(s))

RECURSIVE Sort(_)
Sort(s) == IF s = <<>> THEN <<>> ELSE Insert(Head(s), Sort(Tail(s)))

\* erasures.dedup(): consecutive repeated elements removed
RECURSIVE Dedup(_)
Dedup(s) ==
    IF Len(s) <= 1 THEN s
    ELSE IF s[1] = s[2] THEN Dedup(Tail(s))
    ELSE <<s[1]>> \o Dedup(Tail(s))

\* the erasures sorted but with the repetitions left in
Normalize_nodedup(erasures) == Sort(erasures)

\* The erasures as check_decode_erasure leaves them in the caller's vector.
Normalize(erasures) == Dedup(Sort(erasures))

Contains(s, e) == \E i \in 1..Len(s) : s[i] = e

\* check_decode_erasure rejecting a full set of code_num erasures
check_decode_erasure_ge(ec, erasures) ==
    IF Len(erasures) >= ec.m
    THEN [kind |-> "TooManyErasures", erased |-> Len(erasures), max |-> ec.m]
    ELSE IF \E i \in 1..Len(erasures) : erasures[i] >= ec.k + ec.m
    THEN [kind |-> "InvalidArguments", msg |-> "erasure index out of range",
          args |-> erasures]
    ELSE Ok

\* check_decode_erasure letting the index block_num through
check_decode_erasure_gt(ec, erasures) ==
    IF Len(erasures) > ec.m
    THEN [kind |-> "TooManyErasures", erased |-> Len(erasures), max |-> ec.m]
    ELSE IF \E i \in 1..Len(erasures) : erasures[i] > ec.k + ec.m
    THEN [kind |-> "InvalidArguments", msg |-> "erasure index out of range",
          args |-> erasures]
    ELSE Ok

\* check_decode_erasure looking at the range of the indices before their
\* number
check_decode_erasure_range_first(ec, erasures) ==
    IF \E i \in 1..Len(erasures) : erasures[i] >= block_num(ec)
    THEN invalid_arguments("erasure index out of range", erasures)
    ELSE IF Len(erasures) > code_num(ec)
    THEN too_many_erasures(Len(erasures), code_num(ec))
    ELSE Ok

\* ErasureCode::check_decode_erasure, on the normalized list
check_decode_erasure(ec, erasures) ==
    IF Len(erasures) > code_num(ec)
    THEN too_many_erasures(Len(erasures), code_num(ec))
    ELSE IF \E i \in 1..Len(erasures) : erasures[i] >= block_num(ec)
    THEN invalid_arguments("erasure index out of range", erasures)
    ELSE Ok

\* check_encode_buffer without the check of the number of code blocks
check_encode_buffer_nocode(ec, data, code) ==
    IF Len(data) # ec.k
    THEN invalid_arguments("data length is not equal to source num",
                           <<Len(data), ec.k>>)
    ELSE LET len == Len(data[1])
         IN  IF \E i \in 1..Len(data) : Len(data[i]) # len
             THEN invalid_arguments("source data block must be equal", <<>>)
             ELSE IF \E i \in 1..Len(code) : Len(code[i]) # len
             THEN invalid_arguments("code data block must be equal", <<>>)
             ELSE Ok

\* check_encode_buffer refusing blocks of length 0
check_encode_buffer_nonempty(ec, data, code) ==
    IF Len(data) # ec.k
    THEN invalid_arguments("data length is not equal to source num",
                           <<Len(data), ec.k>>)
    ELSE IF Len(code) # ec.m
    THEN invalid_arguments("code length is not equal to code number",
                           <<Len(code), ec.m>>)
    ELSE LET len == Len(data[1])
         IN  IF len = 0 \/ \E i \in 1..Len(data) : Len(data[i]) # len
             THEN invalid_arguments("source data block must be equal", <<>>)
             ELSE IF \E i \in 1..Len(code) : Len(code[i]) # len
             THEN invalid_arguments("code data block must be equal", <<>>)
             ELSE Ok

\* ErasureCode::check_encode_buffer
check_encode_buffer(ec, data, code) ==
    IF Len(data) # source_num(ec)
    THEN invalid_arguments("data length is not equal to source num",
                           <<Len(data), ec.k>>)
    ELSE IF Len(code) # code_num(ec)
    THEN invalid_arguments("code length is not equal to code number",
                           <<Len(code), ec.m>>)
    ELSE LET len == Len(data[1])
         IN  IF \E i \in 1..Len(data) : Len(data[i]) # len
             THEN invalid_arguments("source data block must be equal", <<>>)
             ELSE IF \E i \in 1..Len(code) : Len(code[i]) # len
             THEN invalid_arguments("code data block must be equal", <<>>)
             ELSE Ok

\* check_decode_buffer without the check of the code blocks' lengths
check_decode_buffer_nolen(ec, data, code) ==
    IF Len(data) # ec.k
    THEN invalid_arguments("data length is not equal to source num",
                           <<Len(data), ec.k>>)
    ELSE IF Len(code) # ec.m
    THEN invalid_arguments("code length is not equal to code number",
                           <<Len(code), ec.m>>)
    ELSE LET len == Len(data[1])
         IN  IF \E i \in 1..Len(data) : Len(data[i]) # len
             THEN invalid_arguments("source data block must be equal", <<>>)
             ELSE Ok

\* ErasureCode::check_decode_buffer
check_decode_buffer(ec, data, code) ==
    IF Len(data) # ec.k
    THEN invalid_arguments("data length is not equal to source num",
                           <<Len(data), ec.k>>)
    ELSE IF Len(code) # ec.m
    THEN invalid_arguments("code length is not equal to code number",
                           <<Len(code), ec.m>>)
    ELSE LET len == Len(data[1])
         IN  IF \E i \in 1..Len(data) : Len(data[i]) # len
             THEN invalid_arguments("source data block must be equal", <<>>)
             ELSE IF \E i \in 1..Len(code) : Len(code[i]) # len
             THEN invalid_arguments("code data block must be equal", <<>>)
             ELSE Ok

\* the first cnt elements, ascending, of the set S of numbers
RECURSIVE TakeAscending(_, _)
TakeAscending(S, cnt) ==
    IF cnt = 0 \/ S = {}
    THEN <<>>
    ELSE LET lo == CHOOSE e \in S : \A f \in S : e <= f
         IN  <<lo>> \o TakeAscending(S \ {lo}, cnt - 1)

\* decode_index without the filter on the erased blocks
decode_index_unfiltered(ec, erasures) ==
    TakeAscending(0..(ec.k + ec.m - 1), ec.k)

\* decode_index without the take(k): every block not erased
decode_index_untruncated(ec, erasures) ==
    TakeAscending({i \in 0..(block_num(ec) - 1) : ~Contains(erasures, i)},
                  block_num(ec))

\* decode_index of make_decode_matrix: the first k blocks not erased
decode_index(ec, erasures) ==
    TakeAscending({i \in 0..(block_num(ec) - 1) : ~Contains(erasures, i)},
                  ec.k)

\* surviver_row of make_decode_matrix: the rows of the encode matrix of the
\* blocks of index, one after the other
surviver_row(ec, index) ==
    Tup([idx \in 1..(ec.k * Len(index)) |->
        ec.encode_matrix[ec.k * index[RowOf(idx, ec.k) + 1]
                         + ColOf(idx, ec.k) + 1]])

\* XOR over j < upto of mul(invert[j * k + i], encode_matrix[k * erasure + j])
RECURSIVE ParityCoeff(_, _, _, _, _)
ParityCoeff(ec, invert, erasure, i, upto) ==
    IF upto = 0
    THEN 0
    ELSE Xor(ParityCoeff(ec, invert, erasure, i, upto - 1),
             mul(invert[(upto - 1) * ec.k + i + 1],
                 ec.encode_matrix[ec.k * erasure + (upto - 1) + 1]))

\* decode_row taking, for an erased code block, its row of the encode
\* matrix as it is, as if the survivors were the source blocks
decode_row_unmixed(ec, invert, erasure) ==
    IF erasure < ec.k
    THEN SubSeq(invert, ec.k * erasure + 1, ec.k * erasure + source_num(ec))
    ELSE SubSeq(ec.encode_matrix, ec.k * erasure + 1,
                ec.k * erasure + source_num(ec))

\* decode_row counting the rows of the encode matrix, for an erased code
\* block, from the first code row instead of from the first row
decode_row_relative(ec, invert, erasure) ==
    IF erasure < ec.k
    THEN SubSeq(invert, ec.k * erasure + 1, ec.k * erasure + source_num(ec))
    ELSE Tup([c \in 1..ec.k |->
                ParityCoeff(ec, invert, erasure - ec.k, c - 1, source_num(ec))])

\* the row of the decode matrix for one erasure
decode_row(ec, invert, erasure) ==
    IF erasure < ec.k
    THEN SubSeq(invert, ec.k * erasure + 1, ec.k * erasure + source_num(ec))
    ELSE Tup([c \in 1..ec.k |->
                ParityCoeff(ec, invert, erasure, c - 1, source_num(ec))])

\* the encode matrix when invert_matrix is handed the matrix's own survivor
\* rows, not a copy of them: the rows hold what the inversion leaves of its
\* input
encode_matrix_inverted_in_place(ec, erasures) ==
    LET index == decode_index(ec, erasures)
        left == invert_matrix(surviver_row(ec, index), ec.k).input
    IN  Tup([idx \in 1..Len(ec.encode_matrix) |->
            IF \E r \in 1..Len(index) : index[r] = RowOf(idx, ec.k)
            THEN LET r == CHOOSE r \in 1..Len(index) :
                                index[r] = RowOf(idx, ec.k)
                 IN  left[(r - 1) * ec.k + ColOf(idx, ec.k) + 1]
            ELSE ec.encode_matrix[idx]])

\* self.encode_matrix when make_decode_matrix returns: surviver_row is
\* collected from copies of the matrix's bytes, invert_matrix destroys that
\* vector, and the method has the engine by shared reference
encode_matrix_after_derivation(ec, erasures) == ec.encode_matrix

\* make_decode_matrix going on with whatever invert_matrix left in its
\* output when it found the survivor rows singular
make_decode_matrix_unchecked(ec, erasures) ==
    LET kk  == source_num(ec)
        inverted == invert_matrix(surviver_row(ec, decode_index(ec, erasures)), ec.k)
    IN  IF \E i \in 1..Len(erasures) : erasures[i] >= block_num(ec)
        THEN [res |-> panic("index out of bounds"), matrix |-> <<>>]
        ELSE [res |-> Ok,
              matrix |->
                Tup([idx \in 1..(kk * block_num(ec)) |->
                    IF RowOf(idx, kk) < Len(erasures)
                    THEN decode_row(ec, inverted.output,
                                    erasures[RowOf(idx, kk) + 1])[ColOf(idx, kk) + 1]
                    ELSE 0])]

\* make_decode_matrix allocating only the rows of the erasures, without
\* the zeroed rows behind them
make_decode_matrix_unpadded(ec, erasures) ==
    LET kk  == source_num(ec)
        inverted == invert_matrix(surviver_row(ec, decode_index(ec, erasures)), ec.k)
    IN  IF \E i \in 1..Len(erasures) : erasures[i] >= block_num(ec)
        THEN [res |-> panic("index out of bounds"), matrix |-> <<>>]
        ELSE IF ~inverted.ok
        THEN [res |-> internal_error("fail to invert matrix"), matrix |-> <<>>]
        ELSE [res |-> Ok,
              matrix |->
                Tup([idx \in 1..(kk * Len(erasures)) |->
                    decode_row(ec, inverted.output,
                               erasures[RowOf(idx, kk) + 1])[ColOf(idx, kk) + 1]])]

\* ErasureCode::make_decode_matrix: [res, matrix], the matrix of
\* k * block_num bytes when res is Ok
make_decode_matrix(ec, erasures) ==
    LET kk  == source_num(ec)
        inverted == invert_matrix(surviver_row(ec, decode_index(ec, erasures)), ec.k)
    IN  IF \E i \in 1..Len(erasures) : erasures[i] >= block_num(ec)
        THEN \* block_in_erasure[e] = true with e out of range
             [res |-> panic("index out of bounds"), matrix |-> <<>>]
        ELSE IF ~inverted.ok
        THEN [res |-> internal_error("fail to invert matrix"), matrix |-> <<>>]
        ELSE [res |-> Ok,
              matrix |->
                Tup([idx \in 1..(kk * block_num(ec)) |->
                    IF RowOf(idx, kk) < Len(erasures)
                    THEN decode_row(ec, inverted.output,
                                    erasures[RowOf(idx, kk) + 1])[ColOf(idx, kk) + 1]
                    ELSE 0])]

\* make_table_from_matrix rejecting only a slice shorter than rows * cols
make_table_from_matrix_truncating(matrix, cols, rows) ==
    IF Len(matrix) < cols * rows
    THEN [res |-> invalid_arguments("matrix length is not equal to col * row",
                                    <<Len(matrix), cols * rows>>),
          table |-> <<>>]
    ELSE [res |-> Ok, table |-> init_tables(cols, rows, matrix)]

\* make_table_from_matrix: [res, table]
make_table_from_matrix(matrix, cols, rows) ==
    IF Len(matrix) # cols * rows
    THEN [res |-> invalid_arguments("matrix length is not equal to col * row",
                                    <<Len(matrix), cols * rows>>),
          table |-> <<>>]
    ELSE [res |-> Ok, table |-> init_tables(cols, rows, matrix)]

\* ErasureCode::make_decode_table_impl: [res, table]
make_decode_table_impl(ec, erasures) ==
    LET made == make_decode_matrix(ec, erasures)
        col  == ec.k
        row  == Len(erasures)
    IN  IF IsErr(made.res)
        THEN [res |-> made.res, table |-> <<>>]
        ELSE make_table_from_matrix(SubSeq(made.matrix, 1, col * row), col, row)

\* encode_impl adding the parity to what the code blocks hold instead of
\* overwriting it
encode_impl_accumulate(ec, data, code) ==
    LET written == encode_data(Len(data[1]), ec.k, ec.m, ec.encode_gf_table,
                               data, 0)
    IN  [l \in 1..Len(written) |->
            [p \in 1..Len(written[l]) |-> Xor(code[l][p], written[l][p])]]

\* ErasureCode::encode_impl: the code blocks after the call
encode_impl(ec, data, code) ==
    encode_data(Len(data[1]), ec.k, ec.m, ec.encode_gf_table, data, 0)

\* ErasureCode::encode: [res, code]
encode(ec, data, code) ==
    LET checked == check_encode_buffer(ec, data, code)
    IN  IF IsErr(checked)
        THEN [res |-> checked, code |-> code]
        ELSE [res |-> Ok, code |-> encode_impl(ec, data, code)]

\* check_update without the check of the number of code blocks
check_update_nocount(ec, index, delta, code) ==
    IF index >= ec.k
    THEN invalid_arguments("index is out of range, max index is source number",
                           <<index, ec.k - 1>>)
    ELSE IF \E i \in 1..Len(code) : Len(code[i]) # Len(delta)
    THEN invalid_arguments("code block length is not equal to delta length",
                           <<Len(delta)>>)
    ELSE Ok

\* ErasureCode::check_update
check_update(ec, index, delta, code) ==
    IF index >= ec.k
    THEN invalid_arguments("index is out of range, max index is source number",
                           <<index, ec.k - 1>>)
    ELSE IF Len(code) # ec.m
    THEN invalid_arguments("code length is not equal to code number",
                           <<Len(code), ec.m>>)
    ELSE IF \E i \in 1..Len(code) : Len(code[i]) # Len(delta)
    THEN invalid_arguments("code block length is not equal to delta length",
                           <<Len(delta)>>)
    ELSE Ok

\* encode_data_update storing the source's contribution instead of adding
\* it to the code block
encode_data_update_overwrite(len, k, rows, vec_i, gf_tbls, data, code) ==
    [l \in 1..Len(code) |->
        IF l > rows
        THEN code[l]
        ELSE [i \in 1..Len(code[l]) |->
                IF i > len
                THEN code[l][i]
                ELSE mul(data[i],
                         gf_tbls[vec_i * 32 + (l - 1) * k * 32 + 2])]]

\* ec::encode_data_update: the code blocks after the call.  Each of the
\* first len bytes of each of the rows code blocks gets the source byte
\* times the coefficient of source vec_i in that row added; check_update
\* has made sure that there are rows code blocks of len bytes and that
\* vec_i < k, so that no byte outside a buffer is touched.
encode_data_update(len, k, rows, vec_i, gf_tbls, data, code) ==
    [l \in 1..Len(code) |->
        IF l > rows
        THEN code[l]
        ELSE [i \in 1..Len(code[l]) |->
                IF i > len
                THEN code[l][i]
                ELSE Xor(code[l][i],
                         mul(data[i],
                             gf_tbls[vec_i * 32 + (l - 1) * k * 32 + 2]))]]

\* ErasureCode::update: [res, code]
update(ec, index, delta, code) ==
    LET checked == check_update(ec, index, delta, code)
    IN  IF IsErr(checked)
        THEN [res |-> checked, code |-> code]
        ELSE [res |-> Ok,
              code |-> encode_data_update(Len(delta), ec.k, ec.m, index,
                                          ec.encode_gf_table, delta, code)]

\* ErasureCode::encode_to_owned: [res, code], code the returned blocks
encode_to_owned(ec, data) ==
    IF Len(data) = 0
    THEN [res |-> panic("unwrap on None"),
          code |-> <<>>]
    ELSE LET len == Len(data[1])
             zeroed == [l \in 1..code_num(ec) |-> [p \in 1..len |-> 0]]
             r == encode(ec, data, zeroed)
         IN  IF IsErr(r.res)
             THEN [res |-> r.res, code |-> <<>>]
             ELSE [res |-> Ok, code |-> r.code]

\* the 0-based indices i < cnt that are (want = TRUE) or are not
\* (want = FALSE) in erasures, ascending
Picked(erasures, cnt, want) ==
    TakeAscending({i \in 0..(cnt - 1) : Contains(erasures, i) = want}, cnt)

\* decode_impl writing the rebuilt blocks over the first blocks of the
\* stripe instead of the erased ones
decode_impl_first(ec, data, code, decode_table, erasures, junk) ==
    LET all == data \o code
        recover_src_idx == Picked(erasures, Len(all), FALSE)
        recover_src == [j \in 1..Len(recover_src_idx) |->
                            all[recover_src_idx[j] + 1]]
        written == encode_data(Len(data[1]), ec.k, Len(erasures),
                               decode_table, recover_src, junk)
        after == [i \in 1..Len(all) |->
                    IF i <= Len(erasures) THEN written[i] ELSE all[i]]
    IN  [data |-> SubSeq(after, 1, Len(data)),
         code |-> SubSeq(after, Len(data) + 1, Len(all))]

\* decode_impl handing the output blocks to the primitive in descending
\* order of their index
decode_impl_descending(ec, data, code, decode_table, erasures, junk) ==
    LET all == data \o code
        recover_src_idx == Picked(erasures, Len(all), FALSE)
        ascending == Picked(erasures, Len(all), TRUE)
        recover_output_idx == [l \in 1..Len(ascending) |->
                                  ascending[Len(ascending) - l + 1]]
        recover_src == [j \in 1..Len(recover_src_idx) |->
                            all[recover_src_idx[j] + 1]]
        written == encode_data(Len(data[1]), ec.k, Len(erasures),
                               decode_table, recover_src, junk)
        after == [i \in 1..Len(all) |->
                    IF Contains(recover_output_idx, i - 1)
                    THEN written[CHOOSE l \in 1..Len(recover_output_idx) :
                                    recover_output_idx[l] = i - 1]
                    ELSE all[i]]
    IN  [data |-> SubSeq(after, 1, Len(data)),
         code |-> SubSeq(after, Len(data) + 1, Len(all))]

\* decode_impl taking every block, erased or not, as a source
decode_impl_unfiltered(ec, data, code, decode_table, erasures, junk) ==
    LET all == data \o code
        recover_output_idx == Picked(erasures, Len(all), TRUE)
        written == encode_data(Len(data[1]), ec.k, Len(erasures),
                               decode_table, all, junk)
        after == [i \in 1..Len(all) |->
                    IF Contains(recover_output_idx, i - 1)
                    THEN written[CHOOSE l \in 1..Len(recover_output_idx) :
                                    recover_output_idx[l] = i - 1]
                    ELSE all[i]]
    IN  [data |-> SubSeq(after, 1, Len(data)),
         code |-> SubSeq(after, Len(data) + 1, Len(all))]

\* ErasureCode::decode_impl: [data, code] after the call.  The blocks in
\* erasures are the outputs, the other blocks the sources, both in the
\* order of data.chain(code).
decode_impl(ec, data, code, decode_table, erasures, junk) ==
    LET all == data \o code
        recover_src_idx == Picked(erasures, Len(all), FALSE)
        recover_output_idx == Picked(erasures, Len(all), TRUE)
        recover_src == [j \in 1..Len(recover_src_idx) |->
                            all[recover_src_idx[j] + 1]]
        blk_len == Len(data[1])
        written == encode_data(blk_len, ec.k, Len(erasures), decode_table,
                               recover_src, junk)
        after == [i \in 1..Len(all) |->
                    IF Contains(recover_output_idx, i - 1)
                    THEN written[CHOOSE l \in 1..Len(recover_output_idx) :
                                    recover_output_idx[l] = i - 1]
                    ELSE all[i]]
    IN  [data |-> SubSeq(after, 1, Len(data)),
         code |-> SubSeq(after, Len(data) + 1, Len(all))]

\* decode running the reconstruction, with the empty table, before it
\* reports that the table could not be made
decode_early(ec, data, code, erasures) ==
    LET sorted == Normalize(erasures)
        e_checked == check_decode_erasure(ec, sorted)
        b_checked == check_decode_buffer(ec, data, code)
        made == make_decode_table_impl(ec, sorted)
        done == decode_impl(ec, data, code, made.table, sorted, 0)
    IN  IF IsErr(e_checked)
        THEN [res |-> e_checked, data |-> data, code |-> code]
        ELSE IF IsErr(b_checked)
        THEN [res |-> b_checked, data |-> data, code |-> code]
        ELSE [res |-> made.res, data |-> done.data, code |-> done.code]

\* ErasureCode::decode: [res, data, code]
decode(ec, data, code, erasures) ==
    LET sorted == Normalize(erasures)
        e_checked == check_decode_erasure(ec, sorted)
        b_checked == check_decode_buffer(ec, data, code)
        made == make_decode_table_impl(ec, sorted)
        done == decode_impl(ec, data, code, made.table, sorted, 0)
    IN  IF IsErr(e_checked)
        THEN [res |-> e_checked, data |-> data, code |-> code]
        ELSE IF IsErr(b_checked)
        THEN [res |-> b_checked, data |-> data, code |-> code]
        ELSE IF IsErr(made.res)
        THEN [res |-> made.res, data |-> data, code |-> code]
        ELSE [res |-> Ok, data |-> done.data, code |-> done.code]

\* decode_with_table refusing a table that has not the size of the table
\* of its erasures
decode_with_table_sized(ec, data, code, decode_table, erasures, junk) ==
    LET sorted == Normalize(erasures)
        e_checked == check_decode_erasure(ec, sorted)
        b_checked == check_decode_buffer(ec, data, code)
        done == decode_impl(ec, data, code, decode_table, sorted, junk)
    IN  IF IsErr(e_checked)
        THEN [res |-> e_checked, data |-> data, code |-> code]
        ELSE IF IsErr(b_checked)
        THEN [res |-> b_checked, data |-> data, code |-> code]
        ELSE IF Len(decode_table) # 32 * ec.k * Len(sorted)
        THEN [res |-> invalid_arguments("decode table does not match", <<>>),
              data |-> data, code |-> code]
        ELSE [res |-> Ok, data |-> done.data, code |-> done.code]

\* ErasureCode::decode_with_table: [res, data, code]
decode_with_table(ec, data, code, decode_table, erasures, junk) ==
    LET sorted == Normalize(erasures)
        e_checked == check_decode_erasure(ec, sorted)
        b_checked == check_decode_buffer(ec, data, code)
        done == decode_impl(ec, data, code, decode_table, sorted, junk)
    IN  IF IsErr(e_checked)
        THEN [res |-> e_checked, data |-> data, code |-> code]
        ELSE IF IsErr(b_checked)
        THEN [res |-> b_checked, data |-> data, code |-> code]
        ELSE [res |-> Ok, data |-> done.data, code |-> done.code]

\* make_decode_table deriving the table from the list as the caller gave
\* it, not from the sorted one
make_decode_table_unsorted(ec, erasures) ==
    LET e_checked == check_decode_erasure(ec, Normalize(erasures))
    IN  IF IsErr(e_checked)
        THEN [res |-> e_checked, table |-> <<>>]
        ELSE make_decode_table_impl(ec, erasures)

\* ErasureCode::make_decode_table: [res, table]
make_decode_table(ec, erasures) ==
    LET sorted == Normalize(erasures)
        e_checked == check_decode_erasure(ec, sorted)
    IN  IF IsErr(e_checked)
        THEN [res |-> e_checked, table |-> <<>>]
        ELSE make_decode_table_impl(ec, sorted)

(***************************************************************************)
(* Bounds of the model and the inputs the caller draws from.               *)
(***************************************************************************)

\* the longest block
MaxLen == 2

\* the (source_num, code_num) pairs engines are built with under both
\* constructors, and the engines built besides
Configs == {<<2, 1>>, <<2, 2>>, <<3, 2>>}
CodeTypes == {"ReedSolomon", "Cauchy"}
Built == (Configs \X CodeTypes) \cup {<<<<5, 6>>, "ReedSolomon">>}
\* the payload the caller stores: byte p of data block i of payload seed
Seeds == {90}
PayloadByte(seed, i, p) == (seed * (i + 1) + 31 * p) % 256
\* the bytes the caller overwrites blocks with
FillBytes == {0, 167}
\* the bytes a read past the end of a table may yield
JunkBytes == {0, 255}

\* the deltas the caller passes to update
DeltaBytes == {1, 204}
Deltas == {Tup(f) : f \in UNION {[1..n -> DeltaBytes] : n \in 0..MaxLen}}

\* the threads that call the shared engine at the same time
NumThreads == 2

\* the elements of the set S of numbers, ascending
Asc(S) == TakeAscending(S, Cardinality(S))

RECURSIVE Reverse(_)
Reverse(s) == IF s = <<>> THEN <<>> ELSE Reverse(Tail(s)) \o <<Head(s)>>

\* the elements of S descending, the largest once more at the end
Scrambled(S) ==
    IF S = {} THEN <<>> ELSE Reverse(Asc(S)) \o <<Asc(S)[Cardinality(S)]>>

\* erasure lists that name no block, or too many
BadLists(kk, mm) ==
    { <<kk + mm>>, <<kk + mm + 1, 0>>, <<kk + mm, kk + mm>>,
      Asc(0..mm), Scrambled((1..mm) \cup {kk + mm}) }

\* the sets of blocks the caller names to the engine of 5 + 6 blocks, which
\* has too many for all of them to be tried
SampledSets ==
    { {}, {0}, {5}, {3, 8}, 0..5, 5..10, {0, 1, 4, 6, 7, 9}, {0, 2, 5, 7, 8, 9} }

\* the erasure lists the caller passes to an engine of kk + mm blocks:
\* every set of up to mm blocks in ascending order, the sets of mm blocks
\* with the last block also out of order and with a repetition, and the
\* bad lists
BlockSets(kk, mm) ==
    IF <<kk, mm>> \in Configs
    THEN {S \in SUBSET (0..(kk + mm - 1)) : Cardinality(S) <= mm}
    ELSE SampledSets

ErasureLists(kk, mm) ==
    LET valid == BlockSets(kk, mm)
    IN  {Asc(S) : S \in valid}
        \cup {Scrambled(S) : S \in {T \in valid : /\ Cardinality(T) = mm
                                                   /\ kk + mm - 1 \in T}}
        \cup BadLists(kk, mm)

\* the erasure lists the caller passes along with a table made from `from`
ReuseLists(kk, mm, from) ==
    { from, Scrambled({from[i] : i \in 1..Len(from)}) }
    \cup { <<0>>, <<kk + mm>>, Asc(0..mm) }

\* the ways the caller passes buffers of a wrong shape
Reshapes ==
    { "pop_data", "push_data", "pop_code", "push_code",
      "shrink_data", "grow_data", "shrink_code", "grow_code" }

(***************************************************************************)
(* State: one engine, the caller's stripe buffers, and the last call.      *)
(***************************************************************************)
VARIABLES
    k, m, encode_matrix, encode_gf_table,  \* the fields of ErasureCode
    code_type,      \* the constructor the engine was built with
    data, code,     \* the caller's data and code blocks
    encoded,        \* whether encode has filled the code blocks
    orig_data, orig_code,   \* the stripe as the caller last made it whole
    call,           \* the engine call that has just returned, if any
    ret,            \* what it returned
    pre_data, pre_code,     \* the buffers as that call found them
    table,          \* the DecodeTable the caller holds
    threads         \* the calls in progress of the threads that share the
                    \* engine, each with the buffers it owns

vars == <<k, m, encode_matrix, encode_gf_table, code_type, data, code,
          encoded, orig_data, orig_code, call, ret, pre_data, pre_code, table,
          threads>>

engine_vars == <<k, m, encode_matrix, encode_gf_table, code_type>>

\* the engine as a record
Engine == [k |-> k, m |-> m, encode_matrix |-> encode_matrix,
           encode_gf_table |-> encode_gf_table]

NoCall == [op |-> "none", erasures |-> <<>>, junk |-> 0]
NoRet == [kind |-> "None"]
NoTable == [live |-> FALSE, bytes |-> <<>>, from |-> <<>>]

Filled(len, b) == [p \in 1..len |-> b]

\* the caller's buffers have the shape the engine asks for
WellFormed(d, c) == check_decode_buffer(Engine, d, c) = Ok

\* the blocks of the well-formed stripe <<d, c>> that differ from the
\* stripe as it was made
DamagedIn(d, c) ==
    {i \in 0..(k + m - 1) : (d \o c)[i + 1] # (orig_data \o orig_code)[i + 1]}

Damaged == DamagedIn(data, code)

Idle == call.op = "none"

\* decode or make_decode_table, returning r, got as far as
\* make_decode_matrix: the checks before it passed
Derived(r) == r.kind \in {"Ok", "InternalError"}

\* with_reed_solomon / with_cauchy, the caller's payload in the data blocks
\* and zeroed code blocks
Init ==
    \E built \in Built, len \in 0..MaxLen, seed \in Seeds :
        LET cfg == built[1]
            t == built[2]
            ec == new(cfg[1], cfg[2], t)
        IN  /\ k = ec.k
            /\ m = ec.m
            /\ encode_matrix = ec.encode_matrix
            /\ encode_gf_table = ec.encode_gf_table
            /\ code_type = t
            /\ data = [i \in 1..cfg[1] |->
                            [p \in 1..len |-> PayloadByte(seed, i - 1, p - 1)]]
            /\ code = [i \in 1..cfg[2] |-> Filled(len, 0)]
            /\ encoded = FALSE
            /\ orig_data = data
            /\ orig_code = code
            /\ call = NoCall
            /\ ret = NoRet
            /\ pre_data = <<>>
            /\ pre_code = <<>>
            /\ table = NoTable
            /\ threads = <<>>

\* The caller overwrites the blocks of lost with the byte b: the lost blocks
\* of the encoded stripe, or whatever code blocks hold before encode fills
\* them.
Overwrite(lost, b) ==
    /\ Idle
    /\ WellFormed(data, code)
    /\ Damaged = {}
    /\ lost # {}
    /\ encoded \/ \A i \in lost : i >= k
    /\ data' = [i \in 1..Len(data) |->
                    IF i - 1 \in lost THEN Filled(Len(data[1]), b) ELSE data[i]]
    /\ code' = [i \in 1..Len(code) |->
                    IF k + i - 1 \in lost THEN Filled(Len(data[1]), b) ELSE code[i]]
    /\ UNCHANGED <<threads, engine_vars, encoded, orig_data, orig_code, call, ret,
                   pre_data, pre_code, table>>

\* The caller passes buffers of a wrong shape.
Reshaped(d, c, how) ==
    LET len == Len(d[1])
    IN  CASE how = "pop_data"    -> <<SubSeq(d, 1, Len(d) - 1), c>>
          [] how = "push_data"   -> <<Append(d, Filled(len, 0)), c>>
          [] how = "pop_code"    -> <<d, SubSeq(c, 1, Len(c) - 1)>>
          [] how = "push_code"   -> <<d, Append(c, Filled(len, 0))>>
          [] how = "shrink_data" -> <<[d EXCEPT ![1] = Tail(d[1])], c>>
          [] how = "grow_data"   ->
                <<[d EXCEPT ![Len(d)] = Append(d[Len(d)], 0)], c>>
          [] how = "shrink_code" -> <<d, [c EXCEPT ![1] = Tail(c[1])]>>
          [] how = "grow_code"   ->
                <<d, [c EXCEPT ![Len(c)] = Append(c[Len(c)], 0)]>>

Reshape(how) ==
    /\ Idle
    /\ WellFormed(data, code)
    /\ Damaged = {}
    /\ how \in {"shrink_data", "shrink_code"} => Len(data[1]) > 0
    /\ data' = Reshaped(data, code, how)[1]
    /\ code' = Reshaped(data, code, how)[2]
    /\ UNCHANGED <<threads, engine_vars, encoded, orig_data, orig_code, call, ret,
                   pre_data, pre_code, table>>

\* ec.encode(&data, &mut code)
Encode ==
    /\ Idle
    /\ ~encoded
    /\ LET r == encode(Engine, data, code)
       IN  /\ call' = [op |-> "encode", erasures |-> <<>>, junk |-> 0]
           /\ ret' = r.res
           /\ code' = r.code
           /\ encoded' = ~IsErr(r.res)
           /\ orig_data' = IF IsErr(r.res) THEN orig_data ELSE data
           /\ orig_code' = IF IsErr(r.res) THEN orig_code ELSE r.code
    /\ pre_data' = data
    /\ pre_code' = code
    /\ UNCHANGED <<threads, engine_vars, data, table>>

\* code = ec.encode_to_owned(&data)?
EncodeToOwned ==
    /\ Idle
    /\ ~encoded
    /\ LET r == encode_to_owned(Engine, data)
       IN  /\ call' = [op |-> "encode_to_owned", erasures |-> <<>>, junk |-> 0]
           /\ ret' = r.res
           /\ code' = IF IsErr(r.res) THEN code ELSE r.code
           /\ encoded' = ~IsErr(r.res)
           /\ orig_data' = IF IsErr(r.res) THEN orig_data ELSE data
           /\ orig_code' = IF IsErr(r.res) THEN orig_code ELSE r.code
    /\ pre_data' = data
    /\ pre_code' = code
    /\ UNCHANGED <<threads, engine_vars, data, table>>

\* ec.decode(&mut data, &mut code, erasures)
Decode(erasures) ==
    /\ Idle
    /\ LET r == decode(Engine, data, code, erasures)
       IN  /\ call' = [op |-> "decode", erasures |-> erasures, junk |-> 0]
           /\ ret' = r.res
           /\ data' = r.data
           /\ code' = r.code
           /\ encode_matrix' =
                IF Derived(r.res)
                THEN encode_matrix_after_derivation(Engine, Normalize(erasures))
                ELSE encode_matrix
    /\ pre_data' = data
    /\ pre_code' = code
    /\ UNCHANGED <<threads, k, m, encode_gf_table, code_type, encoded, orig_data,
                   orig_code, table>>

\* table = ec.make_decode_table(erasures)
MakeDecodeTable(erasures) ==
    /\ Idle
    /\ LET r == make_decode_table(Engine, erasures)
       IN  /\ call' = [op |-> "make_decode_table", erasures |-> erasures,
                    junk |-> 0]
           /\ ret' = r.res
           /\ table' = IF IsErr(r.res)
                       THEN NoTable
                       ELSE [live |-> TRUE, bytes |-> r.table,
                             from |-> erasures]
           /\ encode_matrix' =
                IF Derived(r.res)
                THEN encode_matrix_after_derivation(Engine, Normalize(erasures))
                ELSE encode_matrix
    /\ pre_data' = data
    /\ pre_code' = code
    /\ UNCHANGED <<threads, k, m, encode_gf_table, code_type, data, code, encoded,
                   orig_data, orig_code>>

\* ec.decode_with_table(&mut data, &mut code, &table, erasures), with the
\* table make_decode_table has just returned
DecodeWithTable(erasures, junk) ==
    /\ call.op = "make_decode_table"
    /\ table.live
    \* junk is read only past the end of the table: one value stands for
    \* all when the table is long enough
    /\ Len(table.bytes) >= 32 * k * Len(Normalize(erasures)) =>
            junk = CHOOSE b \in JunkBytes : \A c \in JunkBytes : b <= c
    /\ LET r == decode_with_table(Engine, data, code, table.bytes,
                                  erasures, junk)
       IN  /\ call' = [op |-> "decode_with_table", erasures |-> erasures,
                    junk |-> junk]
           /\ ret' = r.res
           /\ data' = r.data
           /\ code' = r.code
    /\ pre_data' = data
    /\ pre_code' = code
    /\ UNCHANGED <<threads, engine_vars, encoded, orig_data, orig_code, table>>

\* bytes lo .. lo + n - 1 (from 0) of every block of c
View(c, lo, n) == [l \in 1..Len(c) |-> SubSeq(c[l], lo + 1, lo + n)]

\* the blocks of c with the bytes from lo on replaced by those of v
Stored(c, lo, v) ==
    [l \in 1..Len(c) |->
        [i \in 1..Len(c[l]) |->
            IF i > lo /\ i <= lo + Len(v[l]) THEN v[l][i - lo] ELSE c[l][i]]]

\* ec.update(index, delta, code), or, with whole = FALSE,
\* ec.update(index, delta, code.iter_mut().map(|p| &mut p[lo..lo + delta.len()]))
\* on the encoded stripe
Update(index, delta, lo, whole) ==
    /\ Idle
    /\ encoded
    /\ WellFormed(data, code) => Damaged = {}
    /\ IF whole
       THEN lo = 0
       ELSE WellFormed(data, code) /\ lo + Len(delta) <= Len(data[1])
    /\ LET view == IF whole THEN code ELSE View(code, lo, Len(delta))
           r == update(Engine, index, delta, view)
       IN  /\ call' = [op |-> "update", erasures |-> <<>>, junk |-> 0,
                       index |-> index, delta |-> delta, lo |-> lo,
                       whole |-> whole]
           /\ ret' = r.res
           /\ code' = IF whole THEN r.code ELSE Stored(code, lo, r.code)
    /\ pre_data' = data
    /\ pre_code' = code
    /\ UNCHANGED <<threads, engine_vars, data, encoded, orig_data, orig_code, table>>

\* The caller has looked at the result and drops it, and the table with
\* it, and starts over from its copy of the stripe.
Return ==
    /\ ~Idle
    /\ call' = NoCall
    /\ ret' = NoRet
    /\ pre_data' = <<>>
    /\ pre_code' = <<>>
    /\ table' = NoTable
    /\ data' = orig_data
    /\ code' = orig_code
    /\ UNCHANGED <<threads, engine_vars, encoded, orig_data, orig_code>>

Next ==
    \/ \E lost \in BlockSets(k, m), b \in FillBytes : Overwrite(lost, b)
    \/ \E how \in Reshapes : Reshape(how)
    \/ Encode
    \/ EncodeToOwned
    \/ \E erasures \in ErasureLists(k, m) : Decode(erasures)
    \/ \E erasures \in ErasureLists(k, m) : MakeDecodeTable(erasures)
    \/ \E erasures \in ReuseLists(k, m, table.from), junk \in JunkBytes :
            DecodeWithTable(erasures, junk)
    \/ \E index \in 0..k, delta \in Deltas, lo \in 0..MaxLen, whole \in BOOLEAN :
            Update(index, delta, lo, whole)
    \/ Return

Spec == Init /\ [][Next]_vars

(***************************************************************************)
(* Threads sharing the engine.  Each thread makes one call on buffers of   *)
(* its own; a call is the steps of its method: the checks, the derivation  *)
(* of the decode table (decode, make_decode_table) and the pass over the   *)
(* blocks.  The steps of different threads interleave.                     *)
(***************************************************************************)

\* the engines the threads share
SharedBuilt ==
    { <<<<3, 2>>, "ReedSolomon">>, <<<<3, 2>>, "Cauchy">>,
      <<<<5, 6>>, "ReedSolomon">> }

\* the erasures of the decoding threads and of the table they share
SharedErasures(kk) == <<kk, 0>>

\* the calls a thread may make on an engine of kk + mm blocks
Jobs(kk, mm) ==
    { [op |-> "encode", erasures |-> <<>>, index |-> 0, delta |-> <<>>],
      [op |-> "update", erasures |-> <<>>, index |-> 1,
       delta |-> Filled(MaxLen, 204)] }
    \cup { [op |-> o, erasures |-> SharedErasures(kk), index |-> 0,
            delta |-> <<>>] :
                o \in {"decode", "make_decode_table", "decode_with_table"} }
    \cup { [op |-> o, erasures |-> <<0, 1, 4, 6, 7, 9>>, index |-> 0,
            delta |-> <<>>] :
                o \in IF <<kk, mm>> = <<5, 6>>
                      THEN {"decode", "make_decode_table"}
                      ELSE {} }

\* a thread about to make the call job on its copy of the stripe <<d, c>>,
\* the blocks it is going to rebuild lost
Starting(job, d, c) ==
    LET lost == {job.erasures[i] : i \in 1..Len(job.erasures)}
        mine == [i \in 1..(Len(d) + Len(c)) |->
                    IF i - 1 \in lost /\ job.op # "make_decode_table"
                    THEN Filled(Len(d[1]), 167)
                    ELSE (d \o c)[i]]
    IN  [job |-> job, pc |-> "check",
         data |-> SubSeq(mine, 1, Len(d)),
         code |-> SubSeq(mine, Len(d) + 1, Len(d) + Len(c)),
         pre_data |-> SubSeq(mine, 1, Len(d)),
         pre_code |-> SubSeq(mine, Len(d) + 1, Len(d) + Len(c)),
         sorted |-> <<>>, tbl |-> <<>>, ret |-> NoRet]

\* an engine, the encoded stripe, the table made for SharedErasures, and
\* the threads about to call
SharedInit ==
    \E built \in SharedBuilt, seed \in Seeds :
        LET cfg == built[1]
            t == built[2]
            ec == new(cfg[1], cfg[2], t)
            d == [i \in 1..cfg[1] |->
                    [p \in 1..MaxLen |-> PayloadByte(seed, i - 1, p - 1)]]
            c == encode(ec, d, [i \in 1..cfg[2] |-> Filled(MaxLen, 0)]).code
            shared == make_decode_table(ec, SharedErasures(cfg[1]))
        IN  /\ k = ec.k
            /\ m = ec.m
            /\ encode_matrix = ec.encode_matrix
            /\ encode_gf_table = ec.encode_gf_table
            /\ code_type = t
            /\ data = d
            /\ code = c
            /\ encoded = TRUE
            /\ orig_data = d
            /\ orig_code = c
            /\ call = NoCall
            /\ ret = NoRet
            /\ pre_data = <<>>
            /\ pre_code = <<>>
            /\ table = [live |-> TRUE, bytes |-> shared.table,
                        from |-> SharedErasures(cfg[1])]
            /\ threads \in [1..NumThreads ->
                                {Starting(job, d, c) : job \in Jobs(cfg[1], cfg[2])}]

stripe_vars == <<data, code, encoded, orig_data, orig_code, call, ret,
                 pre_data, pre_code, table>>

\* Thread t runs the checks its method starts with: check_encode_buffer,
\* check_update, or check_decode_erasure and, with buffers,
\* check_decode_buffer.
Check(t) ==
    /\ threads[t].pc = "check"
    /\ LET th == threads[t]
           job == th.job
           sorted == Normalize(job.erasures)
           e_checked == check_decode_erasure(Engine, sorted)
           checked ==
              CASE job.op = "encode" ->
                        check_encode_buffer(Engine, th.data, th.code)
                [] job.op = "update" ->
                        check_update(Engine, job.index, job.delta, th.code)
                [] job.op = "make_decode_table" -> e_checked
                [] OTHER ->
                        IF IsErr(e_checked)
                        THEN e_checked
                        ELSE check_decode_buffer(Engine, th.data, th.code)
       IN  threads' = [threads EXCEPT ![t] =
                IF IsErr(checked)
                THEN [th EXCEPT !.pc = "done", !.ret = checked]
                ELSE [th EXCEPT !.sorted = sorted,
                                !.pc = IF job.op \in {"decode", "make_decode_table"}
                                       THEN "derive" ELSE "apply"]]
    /\ UNCHANGED <<engine_vars, stripe_vars>>

\* Thread t, in decode or make_decode_table, runs make_decode_table_impl.
Derive(t) ==
    /\ threads[t].pc = "derive"
    /\ LET th == threads[t]
           made == make_decode_table_impl(Engine, th.sorted)
       IN  /\ threads' = [threads EXCEPT ![t] =
                    IF IsErr(made.res)
                    THEN [th EXCEPT !.pc = "done", !.ret = made.res]
                    ELSE IF th.job.op = "make_decode_table"
                    THEN [th EXCEPT !.pc = "done", !.ret = Ok,
                                    !.tbl = made.table]
                    ELSE [th EXCEPT !.pc = "apply", !.tbl = made.table]]
           /\ encode_matrix' = encode_matrix_after_derivation(Engine, th.sorted)
    /\ UNCHANGED <<k, m, encode_gf_table, code_type, stripe_vars>>

\* Thread t runs the pass over its blocks: encode_impl, encode_data_update
\* or decode_impl, the latter with its own table or the shared one.
Apply(t) ==
    /\ threads[t].pc = "apply"
    /\ LET th == threads[t]
           job == th.job
           after ==
              CASE job.op = "encode" ->
                        [data |-> th.data,
                         code |-> encode_impl(Engine, th.data, th.code)]
                [] job.op = "update" ->
                        [data |-> th.data,
                         code |-> encode_data_update(
                                      Len(job.delta), k, m, job.index,
                                      encode_gf_table, job.delta, th.code)]
                [] job.op = "decode" ->
                        decode_impl(Engine, th.data, th.code, th.tbl,
                                    th.sorted, 0)
                [] OTHER ->
                        decode_impl(Engine, th.data, th.code, table.bytes,
                                    th.sorted, 0)
       IN  threads' = [threads EXCEPT ![t] =
                [th EXCEPT !.pc = "done", !.ret = Ok,
                           !.data = after.data, !.code = after.code]]
    /\ UNCHANGED <<engine_vars, stripe_vars>>

SharedNext ==
    \/ \E t \in DOMAIN threads : Check(t)
    \/ \E t \in DOMAIN threads : Derive(t)
    \/ \E t \in DOMAIN threads : Apply(t)

SharedSpec == SharedInit /\ [][SharedNext]_vars

(***************************************************************************)
(* The private functions called on their own, as the unit tests of         *)
(* erasure.rs (mod test) call them: make_decode_matrix on a validated      *)
(* erasure list, make_table_from_matrix on a slice of coefficients, and    *)
(* encode_to_owned on the list of data blocks the caller has.              *)
(***************************************************************************)
\* the engines of the unit tests: those of Built and the K = 4, M = 2 of
\* mod test
UnitBuilt == Built \cup ({<<4, 2>>} \X CodeTypes)

\* sorted lists of distinct blocks of an engine of kk + mm blocks, no more
\* than mm of them
UnitErasures(kk, mm) ==
    { Asc(S) : S \in { T \in IF kk + mm <= 6
                              THEN SUBSET (0..(kk + mm - 1))
                              ELSE SampledSets :
                          Cardinality(T) <= mm } }

\* the slices of the engine's matrix a caller cuts behind the identity
\* rows, as _make_table_from_matrix does: the first len coefficients
ParitySlice(len) == SubSeq(encode_matrix, k * k + 1, k * k + len)

\* an engine and the data blocks of a caller: none, or k blocks
UnitInit ==
    \E built \in UnitBuilt, len \in 0..MaxLen, seed \in Seeds, none \in BOOLEAN :
        LET cfg == built[1]
            t == built[2]
            ec == new(cfg[1], cfg[2], t)
        IN  /\ k = ec.k
            /\ m = ec.m
            /\ encode_matrix = ec.encode_matrix
            /\ encode_gf_table = ec.encode_gf_table
            /\ code_type = t
            /\ data = IF none
                      THEN <<>>
                      ELSE [i \in 1..cfg[1] |->
                            [p \in 1..len |-> PayloadByte(seed, i - 1, p - 1)]]
            /\ none => len = 0
            /\ code = <<>>
            /\ encoded = FALSE
            /\ orig_data = data
            /\ orig_code = code
            /\ call = NoCall
            /\ ret = NoRet
            /\ pre_data = <<>>
            /\ pre_code = <<>>
            /\ table = NoTable
            /\ threads = <<>>

\* ec.make_decode_matrix(&erasures); ret holds the matrix of Ok(matrix)
MakeDecodeMatrix(erasures) ==
    /\ Idle
    /\ LET made == make_decode_matrix(Engine, erasures)
       IN  /\ call' = [op |-> "make_decode_matrix", erasures |-> erasures,
                       junk |-> 0]
           /\ ret' = IF IsErr(made.res)
                     THEN made.res
                     ELSE [kind |-> "Ok", value |-> made.matrix]
           /\ encode_matrix' = encode_matrix_after_derivation(Engine, erasures)
    /\ pre_data' = data
    /\ pre_code' = code
    /\ UNCHANGED <<threads, k, m, encode_gf_table, code_type, data, code,
                   encoded, orig_data, orig_code, table>>

\* make_table_from_matrix(matrix, cols, rows); ret holds the table of
\* Ok(gf_table)
MakeTableFromMatrix(matrix, cols, rows) ==
    /\ Idle
    /\ LET made == make_table_from_matrix(matrix, cols, rows)
       IN  /\ call' = [op |-> "make_table_from_matrix", erasures |-> <<>>,
                       junk |-> 0, matrix |-> matrix, cols |-> cols,
                       rows |-> rows]
           /\ ret' = IF IsErr(made.res)
                     THEN made.res
                     ELSE [kind |-> "Ok", value |-> made.table]
    /\ pre_data' = data
    /\ pre_code' = code
    /\ UNCHANGED <<threads, engine_vars, data, code, encoded, orig_data,
                   orig_code, table>>

UnitNext ==
    \/ \E erasures \in UnitErasures(k, m) : MakeDecodeMatrix(erasures)
    \/ \E len \in 0..(k * m), cols \in 0..k, rows \in 0..m :
            MakeTableFromMatrix(ParitySlice(len), cols, rows)
    \/ EncodeToOwned
    \/ Return

UnitSpec == UnitInit /\ [][UnitNext]_vars

(***************************************************************************)
(* Properties.  They speak of the state a call has just returned in: call  *)
(* is the call, ret its result, pre_data and pre_code the buffers it was   *)
(* given and data and code the buffers it left.                            *)
(***************************************************************************)
ErasureSet(list) == {list[i] : i \in 1..Len(list)}

Decoding == call.op \in {"decode", "decode_with_table"}
TakesErasures == call.op \in {"decode", "decode_with_table", "make_decode_table"}

\* distinct in-range indices, no more than m of them
ValidErasures(list) ==
    /\ Cardinality(ErasureSet(list)) <= m
    /\ \A e \in ErasureSet(list) : e < k + m

\* the buffers d, c are not k and m blocks of the length of d[1]
BadShape(d, c) ==
    \/ Len(d) # k
    \/ Len(c) # m
    \/ \E i \in 1..Len(d) : Len(d[i]) # Len(d[1])
    \/ \E i \in 1..Len(c) : Len(c[i]) # Len(d[1])

\* C1: when decode returns Ok on an encoded stripe of which only blocks named
\* in the erasures were overwritten, every data and code block is again what
\* it was when the stripe was encoded.
C1_RoundTrip ==
    ( /\ call.op = "decode"
      /\ ret.kind = "Ok"
      /\ encoded
      /\ DamagedIn(pre_data, pre_code) \subseteq ErasureSet(call.erasures) )
    => (data = orig_data /\ code = orig_code)

C1_Witness ==
    /\ call.op = "decode"
    /\ ret.kind = "Ok"
    /\ encoded
    /\ code_type = "ReedSolomon"
    /\ Len(data[1]) > 0
    /\ DamagedIn(pre_data, pre_code) \subseteq ErasureSet(call.erasures)
    /\ \E i \in DamagedIn(pre_data, pre_code) : i < k
    /\ \E i \in DamagedIn(pre_data, pre_code) : i >= k
    /\ data = orig_data
    /\ code = orig_code

\* C2: an engine built with_cauchy never returns InternalError: for every
\* list of at most m distinct in-range erasures the survivor matrix inverts,
\* make_decode_table returns a table and decode, given well-shaped buffers,
\* returns Ok.
C2_CauchyInvertible ==
    code_type = "Cauchy" =>
        /\ ret.kind # "InternalError"
        /\ (TakesErasures /\ ValidErasures(call.erasures)) =>
              invert_matrix(
                  surviver_row(Engine,
                               decode_index(Engine, Normalize(call.erasures))),
                  k).ok
        /\ (call.op = "make_decode_table" /\ ValidErasures(call.erasures)) =>
              (ret.kind = "Ok" /\ table.live)
        /\ ( /\ call.op = "decode"
             /\ ValidErasures(call.erasures)
             /\ ~BadShape(pre_data, pre_code) ) => ret.kind = "Ok"

C2_Witness ==
    /\ code_type = "Cauchy"
    /\ call.op = "make_decode_table"
    /\ ret.kind = "Ok"
    /\ k = 3
    /\ Cardinality(ErasureSet(call.erasures)) = m
    /\ \E e \in ErasureSet(call.erasures) : e < k
    /\ \E e \in ErasureSet(call.erasures) : e >= k

\* C3: decode_with_table, given the table make_decode_table made from the
\* same erasures, returns what decode returns on the same buffers and leaves
\* them as decode leaves them; and when make_decode_table fails, decode on
\* the same buffers fails too.
C3_TableReuse ==
    /\ (call.op = "decode_with_table" /\ call.erasures = table.from) =>
          LET direct == decode(Engine, pre_data, pre_code, call.erasures)
          IN  /\ ret = direct.res
              /\ data = direct.data
              /\ code = direct.code
    /\ (call.op = "make_decode_table" /\ IsErr(ret)) =>
          IsErr(decode(Engine, data, code, call.erasures).res)

C3_Witness ==
    /\ call.op = "decode_with_table"
    /\ call.erasures = table.from
    /\ ret.kind = "Ok"
    /\ encoded
    /\ data # pre_data
    /\ code # pre_code
    /\ data = orig_data
    /\ code = orig_code

C6_IndexOutOfRange ==
    ( /\ TakesErasures
      /\ Cardinality(ErasureSet(call.erasures)) <= m
      /\ \E e \in ErasureSet(call.erasures) : e >= k + m )
    => (ret.kind = "InvalidArguments" /\ data = pre_data /\ code = pre_code)

C6_Witness ==
    /\ call.op = "make_decode_table"
    /\ ret.kind = "InvalidArguments"
    /\ Cardinality(ErasureSet(call.erasures)) = 2
    /\ \E e \in ErasureSet(call.erasures) : e < k + m
    /\ \E e \in ErasureSet(call.erasures) : e >= k + m

\* C7: when decode or decode_with_table returns an error, every data and
\* code block is as the call found it.
C7_ErrorsWriteNothing ==
    (Decoding /\ IsErr(ret)) => (data = pre_data /\ code = pre_code)

C7_Witness ==
    /\ call.op = "decode"
    /\ ret.kind = "InternalError"
    /\ Len(data[1]) > 0
    /\ encoded
    /\ DamagedIn(pre_data, pre_code) # {}
    /\ data = pre_data
    /\ code = pre_code

\* C8: decode and decode_with_table return InvalidArguments when the
\* erasures are valid and the buffers are not k data blocks and m code
\* blocks, all of the length of data block 0.
C8_BadShapeRejected ==
    ( /\ Decoding
      /\ ValidErasures(call.erasures)
      /\ BadShape(pre_data, pre_code) )
    => ret.kind = "InvalidArguments"

C8_Witness ==
    /\ call.op = "decode_with_table"
    /\ ValidErasures(call.erasures)
    /\ Len(pre_data) = k
    /\ Len(pre_code) = m
    /\ \A i \in 1..k : Len(pre_data[i]) = Len(pre_data[1])
    /\ \E i \in 1..m : Len(pre_code[i]) # Len(pre_data[1])
    /\ ret.kind = "InvalidArguments"

\* C9: after decode or decode_with_table returns Ok, every block the
\* erasures do not name is as the call found it; with no erasures and
\* well-shaped buffers the call returns Ok and changes no block.
C9_Frame ==
    Decoding =>
        /\ ret.kind = "Ok" =>
              /\ Len(data) = Len(pre_data)
              /\ Len(code) = Len(pre_code)
              /\ \A i \in (0..(k + m - 1)) \ ErasureSet(call.erasures) :
                    (data \o code)[i + 1] = (pre_data \o pre_code)[i + 1]
        /\ (ErasureSet(call.erasures) = {} /\ ~BadShape(pre_data, pre_code)) =>
              (ret.kind = "Ok" /\ data = pre_data /\ code = pre_code)

C9_Witness ==
    /\ Decoding
    /\ ret.kind = "Ok"
    /\ encoded
    /\ ErasureSet(call.erasures) # {}
    /\ data # pre_data
    /\ \E i \in (0..(k + m - 1)) \ ErasureSet(call.erasures) :
          /\ (data \o code)[i + 1] # (orig_data \o orig_code)[i + 1]
          /\ (data \o code)[i + 1] = (pre_data \o pre_code)[i + 1]

\* C10: encode returns InvalidArguments, and leaves the code blocks as they
\* were, when the buffers are not k data blocks and m code blocks, all of
\* the length of data block 0; otherwise it returns Ok.
C10_EncodeShape ==
    call.op = "encode" =>
        IF BadShape(pre_data, pre_code)
        THEN ret.kind = "InvalidArguments" /\ code = pre_code /\ data = pre_data
        ELSE ret.kind = "Ok"

C10_Witness ==
    /\ call.op = "encode"
    /\ ret.kind = "InvalidArguments"
    /\ Len(pre_data) = k
    /\ Len(pre_code) = m - 1
    /\ code = pre_code

\* the call was given k data blocks and m code blocks, all of length 0
EmptyStripe(d, c) ==
    /\ Len(d) = k
    /\ Len(c) = m
    /\ \A i \in 1..k : Len(d[i]) = 0
    /\ \A i \in 1..m : Len(c[i]) = 0

\* C11 as claimed: encode given k data blocks and m code blocks, all of
\* length 0, returns InvalidArguments.
C11_EmptyBlocksRejected ==
    (call.op = "encode" /\ EmptyStripe(pre_data, pre_code))
    => ret.kind = "InvalidArguments"

\* C11 as amended: encode given k data blocks and m code blocks, all of
\* length 0, returns Ok and leaves the (empty) blocks as they were; no
\* length is refused as long as all blocks have the same.
C11_EmptyBlocksEncode ==
    (call.op = "encode" /\ EmptyStripe(pre_data, pre_code))
    => (ret.kind = "Ok" /\ data = pre_data /\ code = pre_code)

C11_Witness ==
    /\ call.op = "encode"
    /\ EmptyStripe(pre_data, pre_code)
    /\ ret.kind = "Ok"
    /\ encoded

\* byte p of parity row r as the encoding matrix defines it: the sum over
\* the first upto data blocks d of EncodingMatrix[k + r][j] * d[j][p]
\* (r, j, p counted from 0)
RECURSIVE ParitySum(_, _, _, _)
ParitySum(d, r, p, upto) ==
    IF upto = 0
    THEN 0
    ELSE Xor(ParitySum(d, r, p, upto - 1),
             mul(encode_matrix[(k + r) * k + upto], d[upto][p + 1]))

\* C12: after encode returns Ok the data blocks are as they were and every
\* byte p of every code block r is the sum over j < k of
\* EncodingMatrix[k + r][j] * data[j][p], whatever the code blocks held.
C12_EncodeIsMatrixProduct ==
    (call.op = "encode" /\ ret.kind = "Ok") =>
        /\ data = pre_data
        /\ Len(code) = m
        /\ \A r \in 1..m :
              /\ Len(code[r]) = Len(pre_data[1])
              /\ \A p \in 1..Len(pre_data[1]) :
                    code[r][p] = ParitySum(pre_data, r - 1, p - 1, k)

C12_Witness ==
    /\ call.op = "encode"
    /\ ret.kind = "Ok"
    /\ Len(pre_data[1]) > 0
    /\ \E r \in 1..m : pre_code[r][1] # 0
    /\ \E r \in 1..m : pre_code[r][1] # 0 /\ code[r] # pre_code[r]
    /\ data = pre_data

\* the data blocks d with delta added to the bytes from lo on of block index
Patched(d, index, delta, lo) ==
    [j \in 1..Len(d) |->
        [p \in 1..Len(d[j]) |->
            IF j = index + 1 /\ p > lo /\ p <= lo + Len(delta)
            THEN Xor(d[j][p], delta[p - lo])
            ELSE d[j][p]]]

\* the code blocks the update that has just returned was given
UpdateView ==
    IF call.whole THEN pre_code ELSE View(pre_code, call.lo, Len(call.delta))

\* C13: when update(i, delta, P) returns Ok, P being the parity of the data
\* D, whole or the view of the range delta covers, the code blocks are the
\* parity encode computes from scratch for D with delta added to that range
\* of block i.
C13_UpdateIsReencode ==
    ( /\ call.op = "update"
      /\ ret.kind = "Ok"
      /\ encoded
      /\ pre_data = orig_data
      /\ pre_code = orig_code )
    => /\ data = pre_data
       /\ code = encode(Engine,
                        Patched(pre_data, call.index, call.delta, call.lo),
                        pre_code).code

C13_Witness ==
    /\ call.op = "update"
    /\ ret.kind = "Ok"
    /\ encoded
    /\ pre_data = orig_data
    /\ pre_code = orig_code
    /\ ~call.whole
    /\ call.index > 0
    /\ call.lo > 0
    /\ Len(call.delta) > 0
    /\ \A r \in 1..m : code[r] # pre_code[r]
    /\ \A r \in 1..m : code[r][1] = pre_code[r][1]

\* C14: update returns InvalidArguments and leaves the code blocks as they
\* were when the index is k or more, when it is not given m code blocks or
\* when a code block's length is not delta's; otherwise it returns Ok.
C14_UpdateShape ==
    call.op = "update" =>
        IF \/ call.index >= k
           \/ Len(UpdateView) # m
           \/ \E l \in 1..Len(UpdateView) : Len(UpdateView[l]) # Len(call.delta)
        THEN ret.kind = "InvalidArguments" /\ code = pre_code
        ELSE ret.kind = "Ok"

C14_Witness ==
    /\ call.op = "update"
    /\ ret.kind = "InvalidArguments"
    /\ call.index < k
    /\ Len(pre_code) = m
    /\ \A l \in 1..m : Len(pre_code[l]) = 2
    /\ Len(call.delta) = 1
    /\ pre_code = orig_code
    /\ code = pre_code

\* the survivor matrix of the valid erasure list is singular
Singular(list) ==
    ~invert_matrix(surviver_row(Engine, decode_index(Engine, Normalize(list))),
                   k).ok

\* C15 as claimed: make_decode_table and decode return InternalError exactly
\* when the erasure list passes validation and the survivor matrix is
\* singular.
C15_InternalErrorIffSingular ==
    call.op \in {"make_decode_table", "decode"} =>
        (ret.kind = "InternalError"
            <=> (ValidErasures(call.erasures) /\ Singular(call.erasures)))

\* C15 as amended: make_decode_table returns InternalError exactly when the
\* erasure list passes validation and the survivor matrix is singular;
\* decode exactly when, besides, the buffers pass validation, which it
\* checks before it derives the matrix.  The engine of a pair (k, m) with
\* a singular survivor matrix is built all the same.
C15_InternalErrorIffDerivationFails ==
    /\ call.op = "make_decode_table" =>
          (ret.kind = "InternalError"
              <=> (ValidErasures(call.erasures) /\ Singular(call.erasures)))
    /\ call.op = "decode" =>
          (ret.kind = "InternalError"
              <=> ( /\ ValidErasures(call.erasures)
                    /\ ~BadShape(pre_data, pre_code)
                    /\ Singular(call.erasures) ))

C15_Witness ==
    /\ call.op = "make_decode_table"
    /\ ret.kind = "InternalError"
    /\ ValidErasures(call.erasures)
    /\ Singular(call.erasures)
    /\ ~table.live

\* C16 as claimed: an engine built with_reed_solomon(k, m) with k <= 3, or
\* m <= 3, or k = 4 and m <= 21, or k = 5 and m <= 10, or k = 21 and m = 4
\* has an invertible survivor matrix for every valid erasure list, and
\* make_decode_table does not return InternalError.
C16_ReedSolomonSafePairs ==
    ( /\ code_type = "ReedSolomon"
      /\ \/ k <= 3
         \/ m <= 3
         \/ k = 4 /\ m <= 21
         \/ k = 5 /\ m <= 10
         \/ k = 21 /\ m = 4
      /\ call.op = "make_decode_table"
      /\ ValidErasures(call.erasures) )
    => (~Singular(call.erasures) /\ ret.kind # "InternalError")

\* C17: no call changes the engine: k, m, the encode matrix and the encode
\* table stay what the constructor made them, whatever the call and
\* whatever it returns.
C17_EngineImmutable ==
    [][ /\ k' = k
        /\ m' = m
        /\ encode_matrix' = encode_matrix
        /\ encode_gf_table' = encode_gf_table ]_vars

\* a decode has inverted survivor rows that the inversion did not leave as
\* they were, and the engine is still the one the constructor made
C17_Witness ==
    /\ call.op = "decode"
    /\ ret.kind = "Ok"
    /\ LET rows == surviver_row(Engine,
                                decode_index(Engine, Normalize(call.erasures)))
       IN  invert_matrix(rows, k).input # rows
    /\ Engine = new(k, m, code_type)

\* what the call of thread th gives when it is the only call on the engine
\* as built: [res, data, code, table]
Alone(th) ==
    LET ec == new(k, m, code_type)
        job == th.job
    IN  CASE job.op = "encode" ->
                LET r == encode(ec, th.pre_data, th.pre_code)
                IN  [res |-> r.res, data |-> th.pre_data, code |-> r.code,
                     table |-> <<>>]
          [] job.op = "update" ->
                LET r == update(ec, job.index, job.delta, th.pre_code)
                IN  [res |-> r.res, data |-> th.pre_data, code |-> r.code,
                     table |-> <<>>]
          [] job.op = "decode" ->
                LET r == decode(ec, th.pre_data, th.pre_code, job.erasures)
                IN  [res |-> r.res, data |-> r.data, code |-> r.code,
                     table |-> <<>>]
          [] job.op = "decode_with_table" ->
                LET r == decode_with_table(ec, th.pre_data, th.pre_code,
                                           table.bytes, job.erasures, 0)
                IN  [res |-> r.res, data |-> r.data, code |-> r.code,
                     table |-> <<>>]
          [] OTHER ->
                LET r == make_decode_table(ec, job.erasures)
                IN  [res |-> r.res, data |-> th.pre_data, code |-> th.pre_code,
                     table |-> r.table]

\* C18: whatever the interleaving with the calls of the other threads, a
\* call that has returned has returned, and left in its buffers (and, for
\* make_decode_table, in its table), what it does when run alone on the
\* engine as built.
C18_ConcurrentAsAlone ==
    \A t \in DOMAIN threads :
        threads[t].pc = "done" =>
            LET th == threads[t]
                a == Alone(th)
            IN  /\ th.ret = a.res
                /\ th.data = a.data
                /\ th.code = a.code
                /\ (th.job.op = "make_decode_table" /\ th.ret.kind = "Ok")
                        => th.tbl = a.table

\* a decode has returned Ok, after its derivation ran on rows the inversion
\* destroys, while another thread is in the middle of its own decode
C18_Witness ==
    \E t, u \in DOMAIN threads :
        /\ t # u
        /\ threads[t].pc = "done"
        /\ threads[t].job.op = "decode"
        /\ threads[t].ret.kind = "Ok"
        /\ threads[t].data = orig_data
        /\ threads[t].code = orig_code
        /\ threads[t].data # threads[t].pre_data
        /\ threads[u].job.op = "decode"
        /\ threads[u].pc = "derive"

RECURSIVE MixedCoeff(_, _, _, _)
MixedCoeff(inverse, e, c, upto) ==
    IF upto = 0
    THEN 0
    ELSE Xor(MixedCoeff(inverse, e, c, upto - 1),
             mul(inverse[(upto - 1) * k + c + 1],
                 encode_matrix[e * k + upto]))

\* byte p of the first upto columns of row i of the matrix mat applied to
\* the blocks, of the stripe all, that index names (i, p counted from 0)
RECURSIVE RowApplied(_, _, _, _, _, _)
RowApplied(mat, i, index, all, p, upto) ==
    IF upto = 0
    THEN 0
    ELSE Xor(RowApplied(mat, i, index, all, p, upto - 1),
             mul(mat[i * k + upto], all[index[upto] + 1][p + 1]))

\* entry (r, c) of the product of the k x k matrices a and b, summed over
\* the first upto inner indices
RECURSIVE Product(_, _, _, _, _)
Product(a, b, r, c, upto) ==
    IF upto = 0
    THEN 0
    ELSE Xor(Product(a, b, r, c, upto - 1),
             mul(a[r * k + upto], b[(upto - 1) * k + c + 1]))

\* C20: when make_decode_table returns a table for the erasures E, the
\* matrix it is made of has, for the i-th erasure e of E sorted, the row e
\* of the inverse of the survivor matrix when e < k, and otherwise the row
\* of the sums over j < k of inverse[j][c] * EncodingMatrix[e][j]; the table
\* holds these coefficients, and each row applied to the survivors of the
\* encoded stripe gives block e of the stripe.
C20_DecodeMatrixRows ==
    (call.op = "make_decode_table" /\ ret.kind = "Ok") =>
        LET E == Normalize(call.erasures)
            index == decode_index(Engine, E)
            survivors == surviver_row(Engine, index)
            inverse == invert_matrix(survivors, k).output
            matrix == make_decode_matrix(Engine, E).matrix
            stripe == orig_data \o orig_code
        IN  /\ \A r, c \in 0..(k - 1) :
                  Product(inverse, survivors, r, c, k) = IF r = c THEN 1 ELSE 0
            /\ \A i \in 1..Len(E), c \in 0..(k - 1) :
                  /\ matrix[(i - 1) * k + c + 1] =
                        IF E[i] < k
                        THEN inverse[E[i] * k + c + 1]
                        ELSE MixedCoeff(inverse, E[i], c, k)
                  /\ table.bytes[((i - 1) * k + c) * 32 + 2] =
                        matrix[(i - 1) * k + c + 1]
            /\ encoded =>
                  \A i \in 1..Len(E), p \in 0..(Len(stripe[1]) - 1) :
                      RowApplied(matrix, i - 1, index, stripe, p, k) =
                          stripe[E[i] + 1][p + 1]

C20_Witness ==
    /\ call.op = "make_decode_table"
    /\ ret.kind = "Ok"
    /\ encoded
    /\ Len(orig_data[1]) > 0
    /\ k = 3
    /\ \E e \in ErasureSet(call.erasures) : e < k
    /\ \E e \in ErasureSet(call.erasures) : e >= k
    /\ Len(table.bytes) = 32 * k * 2


\* C21: when decode or make_decode_table has derived the decode matrix for
\* validated erasures E, the selection of make_decode_matrix holds exactly k
\* indices, strictly ascending, none of them in E, each block below the
\* last selected one being either selected or in E (they are the k smallest
\* indices not in E), and the survivor matrix has exactly k * k entries.
C21_SurvivorSelection ==
    ( /\ call.op \in {"decode", "make_decode_table"}
      /\ Derived(ret)
      /\ ValidErasures(call.erasures) ) =>
        LET E == ErasureSet(call.erasures)
            index == decode_index(Engine, Normalize(call.erasures))
            chosen == {index[i] : i \in 1..Len(index)}
        IN  /\ Len(index) = k
            /\ \A i \in 1..(Len(index) - 1) : index[i] < index[i + 1]
            /\ chosen \cap E = {}
            /\ chosen \subseteq 0..(k + m - 1)
            /\ \A j \in 0..(k + m - 1) :
                  (j \notin E /\ j \notin chosen) =>
                      \A c \in chosen : c < j
            /\ Len(surviver_row(Engine, index)) = k * k

\* more than k blocks survive, a source block is erased and a source block
\* survives behind it
C21_Witness ==
    /\ call.op = "make_decode_table"
    /\ ret.kind = "Ok"
    /\ ValidErasures(call.erasures)
    /\ Cardinality(ErasureSet(call.erasures)) < m
    /\ \E e \in ErasureSet(call.erasures) : e + 1 < k
    /\ decode_index(Engine, Normalize(call.erasures))[k] = k


\* C22: when decode returns Ok for the erasures E, the block whose index is
\* the i-th smallest element of E holds row i of the decode matrix applied
\* to the first k surviving blocks, in ascending order of their index, of
\* the stripe the call was given; the blocks surviving behind the first k
\* are not read, and every block not in E is left as it was.
C22_RowsWriteErasedBlocksInOrder ==
    (call.op = "decode" /\ ret.kind = "Ok") =>
        LET E == Normalize(call.erasures)
            given == pre_data \o pre_code
            left == data \o code
            survivors == {j \in 0..(k + m - 1) : j \notin ErasureSet(E)}
            first == TakeAscending(survivors, k)
            matrix == make_decode_matrix(Engine, E).matrix
        IN  /\ \A i \in 1..Len(E), p \in 0..(Len(given[1]) - 1) :
                  left[E[i] + 1][p + 1] =
                      RowApplied(matrix, i - 1, first, given, p, k)
            /\ \A j \in survivors : left[j + 1] = given[j + 1]

\* two blocks are erased, more than k blocks survive, and a block behind
\* the first k survivors is not what the stripe had there
C22_Witness ==
    /\ call.op = "decode"
    /\ ret.kind = "Ok"
    /\ encoded
    /\ Len(pre_data[1]) > 0
    /\ Cardinality(ErasureSet(call.erasures)) = 2
    /\ Cardinality(ErasureSet(call.erasures)) < m
    /\ data \o code # pre_data \o pre_code
    /\ \E j \in DamagedIn(pre_data, pre_code) :
          /\ j \notin ErasureSet(call.erasures)
          /\ \A i \in 1..k :
                decode_index(Engine, Normalize(call.erasures))[i] < j


\* C23: when make_decode_matrix returns a matrix for the erasures E, the
\* matrix is the one an engine newly built for the same scheme, k and m
\* derives for E, whatever the blocks of the caller hold; it has exactly
\* k * (k + m) bytes, all zero behind the first k * |E|; the table of
\* make_decode_table_impl is the one built from the first k * |E| bytes
\* alone; and for Cauchy, k = 4, m = 2 the rows are F5 8F BB 06 and
\* 60 40 FE BB for E = [3, 4], C8 52 7B 07 for E = [3] and 47 A7 7A BA for
\* E = [4].
C23_DecodeMatrixShape ==
    (call.op = "make_decode_matrix" /\ ret.kind = "Ok") =>
        LET E == call.erasures
            rows == k * Len(E)
            matrix == ret.value
            built == make_decode_table_impl(Engine, E)
        IN  /\ matrix = make_decode_matrix(new(k, m, code_type), E).matrix
            /\ Len(matrix) = k * (k + m)
            /\ \A idx \in (rows + 1)..Len(matrix) : matrix[idx] = 0
            /\ built.res = Ok
            /\ built.table = init_tables(k, Len(E), SubSeq(matrix, 1, rows))
            /\ Len(built.table) = 32 * rows
            /\ (code_type = "Cauchy" /\ k = 4 /\ m = 2) =>
                  /\ E = <<3, 4>> =>
                        SubSeq(matrix, 1, rows) =
                            <<245, 143, 187, 6, 96, 64, 254, 187>>
                  /\ E = <<3>> => SubSeq(matrix, 1, rows) = <<200, 82, 123, 7>>
                  /\ E = <<4>> => SubSeq(matrix, 1, rows) = <<71, 167, 122, 186>>

\* the matrix of the unit test: Cauchy, k = 4, m = 2, E = [3, 4], derived
\* while the caller holds data blocks that are not empty
C23_Witness ==
    /\ call.op = "make_decode_matrix"
    /\ ret.kind = "Ok"
    /\ code_type = "Cauchy"
    /\ k = 4
    /\ m = 2
    /\ call.erasures = <<3, 4>>
    /\ Len(ret.value) = 24
    /\ Len(data) = k
    /\ Len(data[1]) > 0


\* C24: decode and decode_with_table look at the erasures before the
\* buffers, and at the number of distinct erasures before their range: with
\* more than m distinct erasures the call returns TooManyErasures, also when
\* an index is k + m or more or the buffers are malformed; with no more
\* than m distinct erasures, one of them k + m or more, it returns the
\* InvalidArguments of the erasures (never TooManyErasures, never the
\* InvalidArguments of a buffer), also when the buffers are malformed.
C24_ValidationOrder ==
    Decoding =>
        LET E == ErasureSet(call.erasures)
        IN  /\ Cardinality(E) > m =>
                  ret = too_many_erasures(Cardinality(E), m)
            /\ (Cardinality(E) <= m /\ \E e \in E : e >= k + m) =>
                  /\ ret.kind = "InvalidArguments"
                  /\ ret.msg = "erasure index out of range"
                  /\ ErasureSet(ret.args) = E
            /\ (ValidErasures(call.erasures) /\ BadShape(pre_data, pre_code)) =>
                  /\ ret.kind = "InvalidArguments"
                  /\ ret.msg # "erasure index out of range"

\* more than m distinct erasures, one of them out of range, and malformed
\* buffers: TooManyErasures
C24_Witness ==
    /\ call.op = "decode"
    /\ Cardinality(ErasureSet(call.erasures)) > m
    /\ \E e \in ErasureSet(call.erasures) : e >= k + m
    /\ BadShape(pre_data, pre_code)
    /\ ret.kind = "TooManyErasures"

\* no more than m distinct erasures, one of them out of range, and
\* malformed buffers: the InvalidArguments of the erasures
C24_RangeBeforeBuffers ==
    /\ Decoding
    /\ Cardinality(ErasureSet(call.erasures)) <= m
    /\ \E e \in ErasureSet(call.erasures) : e >= k + m
    /\ BadShape(pre_data, pre_code)
    /\ ret.kind = "InvalidArguments"
    /\ ret.msg = "erasure index out of range"


\* the table _make_table_from_matrix expects for the parity rows
\* 47 A7 7A BA / A7 47 BA 7A of the Cauchy matrix of k = 4, m = 2
expected_gftbls ==
    <<
       0, 71, 142, 201, 1, 70, 143, 200, 2, 69, 140, 203, 3, 68, 141, 202,
       0, 4, 8, 12, 16, 20, 24, 28, 32, 36, 40, 44, 48, 52, 56, 60,
       0, 167, 83, 244, 166, 1, 245, 82, 81, 246, 2, 165, 247, 80, 164, 3,
       0, 162, 89, 251, 178, 16, 235, 73, 121, 219, 32, 130, 203, 105, 146, 48,
       0, 122, 244, 142, 245, 143, 1, 123, 247, 141, 3, 121, 2, 120, 246, 140,
       0, 243, 251, 8, 235, 24, 16, 227, 203, 56, 48, 195, 32, 211, 219, 40,
       0, 186, 105, 211, 210, 104, 187, 1, 185, 3, 208, 106, 107, 209, 2, 184,
       0, 111, 222, 177, 161, 206, 127, 16, 95, 48, 129, 238, 254, 145, 32, 79,
       0, 167, 83, 244, 166, 1, 245, 82, 81, 246, 2, 165, 247, 80, 164, 3,
       0, 162, 89, 251, 178, 16, 235, 73, 121, 219, 32, 130, 203, 105, 146, 48,
       0, 71, 142, 201, 1, 70, 143, 200, 2, 69, 140, 203, 3, 68, 141, 202,
       0, 4, 8, 12, 16, 20, 24, 28, 32, 36, 40, 44, 48, 52, 56, 60,
       0, 186, 105, 211, 210, 104, 187, 1, 185, 3, 208, 106, 107, 209, 2, 184,
       0, 111, 222, 177, 161, 206, 127, 16, 95, 48, 129, 238, 254, 145, 32, 79,
       0, 122, 244, 142, 245, 143, 1, 123, 247, 141, 3, 121, 2, 120, 246, 140,
       0, 243, 251, 8, 235, 24, 16, 227, 203, 56, 48, 195, 32, 211, 219, 40 >>

\* C25: make_table_from_matrix returns InvalidArguments exactly when the
\* slice has not rows * cols coefficients; otherwise it returns a table of
\* rows * cols * 32 bytes in which the 32 bytes of a coefficient depend on
\* the value of the coefficient alone and hold it at offset 1, the table of
\* the parity rows of Cauchy k = 4, m = 2 being the one the unit test
\* expects; with rows = 0 and no coefficient it returns the empty table,
\* as make_decode_table_impl does for the empty erasure list.
C25_TableBuilder ==
    /\ call.op = "make_table_from_matrix" =>
          LET matrix == call.matrix
              size == call.rows * call.cols
          IN  /\ ret.kind \in {"Ok", "InvalidArguments"}
              /\ ret.kind = "InvalidArguments" <=> Len(matrix) # size
              /\ ret.kind = "Ok" =>
                    /\ Len(ret.value) = size * 32
                    /\ \A a \in 1..size :
                          ret.value[(a - 1) * 32 + 2] = matrix[a]
                    /\ \A a, b \in 1..size :
                          matrix[a] = matrix[b] =>
                              SubSeq(ret.value, (a - 1) * 32 + 1, a * 32) =
                              SubSeq(ret.value, (b - 1) * 32 + 1, b * 32)
                    /\ ( /\ code_type = "Cauchy"
                         /\ k = 4
                         /\ m = 2
                         /\ call.cols = k ) =>
                            ret.value = SubSeq(expected_gftbls, 1, size * 32)
              /\ (call.rows = 0 /\ matrix = <<>>) =>
                    ret = [kind |-> "Ok", value |-> <<>>]
    /\ (call.op = "make_decode_matrix" /\ call.erasures = <<>>) =>
          make_decode_table_impl(Engine, <<>>) = [res |-> Ok, table |-> <<>>]

\* the call of the unit test: the eight parity coefficients of Cauchy
\* k = 4, m = 2, four columns, two rows
C25_Witness ==
    /\ call.op = "make_table_from_matrix"
    /\ code_type = "Cauchy"
    /\ k = 4
    /\ m = 2
    /\ call.matrix = <<71, 167, 122, 186, 167, 71, 186, 122>>
    /\ call.cols = 4
    /\ call.rows = 2
    /\ ret.kind = "Ok"
    /\ Len(ret.value) = 256

\* a slice longer than rows * cols is refused
C25_LongSliceRefused ==
    /\ call.op = "make_table_from_matrix"
    /\ Len(call.matrix) > call.rows * call.cols
    /\ call.rows > 0
    /\ call.cols > 0
    /\ ret.kind = "InvalidArguments"


\* C26: the first k rows of the encode matrix are the identity, and when
\* decode or make_decode_table is given valid erasures E that are all code
\* blocks, the selection is 0 .. k - 1, the derivation succeeds, row i of
\* the decode matrix is the row of the encode matrix of the i-th erasure,
\* and decode, given well-formed buffers, returns Ok and leaves in each
\* erased code block the bytes encode writes there from the data blocks.
C26_ParityOnlyIsEncode ==
    /\ \A r, c \in 0..(k - 1) :
          encode_matrix[r * k + c + 1] = IF r = c THEN 1 ELSE 0
    /\ ( /\ call.op \in {"decode", "make_decode_table"}
         /\ ValidErasures(call.erasures)
         /\ \A e \in ErasureSet(call.erasures) : e >= k ) =>
            LET E == Normalize(call.erasures)
                made == make_decode_matrix(Engine, E)
                fresh == encode(Engine, pre_data, pre_code)
            IN  /\ decode_index(Engine, E) = [i \in 1..k |-> i - 1]
                /\ made.res = Ok
                /\ \A i \in 1..Len(E), c \in 1..k :
                      made.matrix[(i - 1) * k + c] = encode_matrix[E[i] * k + c]
                /\ call.op = "make_decode_table" => ret.kind = "Ok"
                /\ (call.op = "decode" /\ ~BadShape(pre_data, pre_code)) =>
                      /\ ret.kind = "Ok"
                      /\ fresh.res = Ok
                      /\ data = pre_data
                      /\ \A i \in 1..m :
                            code[i] = IF k + i - 1 \in ErasureSet(E)
                                      THEN fresh.code[i]
                                      ELSE pre_code[i]

\* decode has rebuilt two overwritten code blocks of a stripe with data
C26_Witness ==
    /\ call.op = "decode"
    /\ ret.kind = "Ok"
    /\ Cardinality(ErasureSet(call.erasures)) = 2
    /\ \A e \in ErasureSet(call.erasures) : e >= k /\ e < k + m
    /\ Len(pre_data[1]) > 0
    /\ code # pre_code
    /\ code = encode(Engine, pre_data, pre_code).code


\* the bytes the blocks of the other run hold where it differs
OtherBytes == {0, 255}

\* the stripe all with every block whose index is not in keep filled with
\* bytes made of b and of the block's index
Masked(all, keep, b) ==
    [i \in 1..Len(all) |->
        IF i - 1 \in keep
        THEN all[i]
        ELSE [p \in 1..Len(all[i]) |-> (b + 17 * i) % 256]]

\* C27: when decode, or decode_with_table with a table long enough for its
\* erasures, returns Ok for the erasures E, a second run of the same call
\* on buffers that hold the same first k surviving blocks and other bytes
\* in every erased block and in every block surviving behind them returns
\* Ok and writes the same bytes into every erased block.
C27_LostContentNotRead ==
    ( /\ Decoding
      /\ ret.kind = "Ok"
      /\ call.op = "decode_with_table" =>
            Len(table.bytes) >= 32 * k * Len(Normalize(call.erasures)) ) =>
        LET E == Normalize(call.erasures)
            selection == decode_index(Engine, E)
            keep == {selection[i] : i \in 1..Len(selection)}
            left == data \o code
        IN  \A b \in OtherBytes :
                LET other == Masked(pre_data \o pre_code, keep, b)
                    d == SubSeq(other, 1, k)
                    c == SubSeq(other, k + 1, k + m)
                    second == IF call.op = "decode"
                              THEN decode(Engine, d, c, call.erasures)
                              ELSE decode_with_table(Engine, d, c, table.bytes,
                                                     call.erasures, call.junk)
                IN  /\ second.res = Ok
                    /\ \A i \in 1..Len(E) :
                          (second.data \o second.code)[E[i] + 1] =
                              left[E[i] + 1]

\* a data block is erased, more than k blocks survive, and the second run
\* differs from the first in an erased block and in a surviving one
C27_Witness ==
    /\ call.op = "decode"
    /\ ret.kind = "Ok"
    /\ Len(pre_data[1]) > 0
    /\ \E e \in ErasureSet(call.erasures) : e < k
    /\ Cardinality(ErasureSet(call.erasures)) < m
    /\ data # pre_data
    /\ LET selection == decode_index(Engine, Normalize(call.erasures))
           keep == {selection[i] : i \in 1..Len(selection)}
           given == pre_data \o pre_code
       IN  \A b \in OtherBytes :
             /\ \E e \in ErasureSet(call.erasures) :
                    Masked(given, keep, b)[e + 1] # given[e + 1]
             /\ \E j \in (0..(k + m - 1)) \ (keep \cup ErasureSet(call.erasures)) :
                    Masked(given, keep, b)[j + 1] # given[j + 1]


\* C28: encode_to_owned returns what encode returns when it is given the
\* same data blocks and m zeroed blocks of the length of data block 0 (no
\* bytes when there is no data block): Ok with the code blocks encode
\* writes, or the InvalidArguments of encode, and nothing else, also for an
\* empty list of data blocks.
C28_EncodeToOwnedIsEncode ==
    call.op = "encode_to_owned" =>
        LET len == IF pre_data = <<>> THEN 0 ELSE Len(pre_data[1])
            zeroed == [l \in 1..m |-> Filled(len, 0)]
            direct == encode(Engine, pre_data, zeroed)
        IN  /\ ret.kind \in {"Ok", "InvalidArguments"}
            /\ ret = direct.res
            /\ ret.kind = "Ok" => code = direct.code

=============================================================================
